---- MODULE Spec2Model ----
(***************************************************************************)
(* Model of the swarm coordination core of main.py (Swarm 3D v0.6):        *)
(* Satellite.step, AlphaAI.regulate and its helpers, form_triplet,         *)
(* refuel_builder, check_collision_path, building_step and the main loop.  *)
(*                                                                         *)
(* Quantities.  Fuel is an integer number of 1/FUEL_SCALE fuel units, so   *)
(* that the smallest drain of the code (ICE_CONSUMPTION * 0.01) is a whole *)
(* number; F_TOTAL / 3 and donor.fuel * 0.5 round down to that unit.       *)
(* Positions are points of one axis (the y axis, on which BASE_POS and     *)
(* several target points of the letter lie) in 1/POS_SCALE length units;   *)
(* mag() is the absolute difference and norm() the sign.  A velocity is    *)
(* kept as its direction (-1, 0, 1): the code reads a velocity only        *)
(* through norm(), through a comparison with zero, and in the blend of     *)
(* pull_toward_targets.  random.* calls are choices from small sets.       *)
(***************************************************************************)
EXTENDS Integers, Sequences, FiniteSets, TLC

FUEL_SCALE == 10000
POS_SCALE == 10

NUM_SATELLITES == 9
MaxTicks == 32
LateTicks == 3

F_TOTAL == 100 * FUEL_SCALE
T_LOW == 30 * FUEL_SCALE
T_CRITICAL == 15 * FUEL_SCALE
F_MAX_SHARE == F_TOTAL \div 3
ICE_CONSUMPTION == (3 * FUEL_SCALE) \div 100
SPEED == (4 * POS_SCALE) \div 10
BOND_RADIUS == 8 * POS_SCALE
BASE_POS == 0
ARRIVAL_RADIUS == (25 * POS_SCALE) \div 10
PRIORITY_WEIGHT == 7
DISTANCE_WEIGHT == 3
STRATEGY_CHANGE_INTERVAL == 600
GOAL_REVISION_INTERVAL == 30
MIN_RESCUE_FUEL == 10 * FUEL_SCALE

\* Satellite.step: the drains of a stationed satellite and of a beacon.
StationedDrain == ICE_CONSUMPTION \div 100
BeaconDrain == (ICE_CONSUMPTION * 2) \div 100
\* Satellite.move_to stops within 0.5 of its goal; step() resets a returning
\* satellite within 3 of the base and a rescuer transfers within 3 of its victim.
MoveEps == (5 * POS_SCALE) \div 10
BaseRadius == 3 * POS_SCALE
RescueRadius == 3 * POS_SCALE
AidRadius == 3 * POS_SCALE
Boundary == 60 * POS_SCALE
\* form_triplet: T_LOW * 0.2; building_step: s.fuel -= 5, build_progress += 0.05
\* (progress is counted in steps of 0.05; twenty steps reach 1.0).
FormationCost == T_LOW \div 5
BuildCost == 5 * FUEL_SCALE
ProgressDone == 20
DonorMin == (33 * F_TOTAL) \div 100
\* build_progress += 0.05 is an addition of doubles: the n-th partial sum
\* differs from the double nearest to n * 0.05 by ProgressDrift[n] units of
\* 2^-57 (0.15000000000000002 after three additions, 1.0000000000000002 after
\* twenty).  A progress is kept as its number of additions; it has reached 1.0
\* when the sum is at least the double 1.0, and it is within [0, 1] when the
\* sum is at most that.
ProgressDrift ==
  <<0, 0, 4, 0, 0, 0, 0, -8, -8, -8, -16, 0, 0, 16, 16, 16, 32, 32, 48, 32>>
ProgressReached(n) ==
  n > ProgressDone \/ (n = ProgressDone /\ ProgressDrift[n] >= 0)
ProgressWithinUnit(n) ==
  0 <= n /\ (n < ProgressDone \/ (n = ProgressDone /\ ProgressDrift[n] <= 0))
\* AlphaAI.__init__ and regulate
TripletInterval == 120
BondRadiusMax == 80 * POS_SCALE
BondRadiusMin == 6 * POS_SCALE
BondRadiusUp == 2 * POS_SCALE
BondRadiusDown == (5 * POS_SCALE) \div 10

Sats == 1..NUM_SATELLITES

\* The target points of the letter that lie on the axis, in the order in which
\* generate_letter_points lists them: (0,0,0), (0,-18,0), (0,18,0).
TargetPos == <<0, -18 * POS_SCALE, 18 * POS_SCALE>>
Targets == 1..Len(TargetPos)

\* random.uniform(-1, 1) as a direction; random.random() as a priority.
RandomVel == {-1, 1}
RandomPriority == {0, 9}

VARIABLES sat, tgt, alpha, frame, pc, k, horizon
vars == <<sat, tgt, alpha, frame, pc, k, horizon>>

---------------------------------------------------------------------------
\* vector helpers (vpython mag, norm) on one axis
Mag(d) == IF d < 0 THEN -d ELSE d
Norm(d) == IF d < 0 THEN -1 ELSE IF d > 0 THEN 1 ELSE 0
Min2(a, b) == IF a <= b THEN a ELSE b
Max2(a, b) == IF a >= b THEN a ELSE b

\* references held in Satellite.target: nothing, a satellite, a target point
NoTarget == [kind |-> "none", id |-> 0]
SatRef(i) == [kind |-> "sat", id |-> i]
TgtRef(j) == [kind |-> "tp", id |-> j]
NoPair == << >>

\* A world is what the operations read and write: the satellites, the target
\* points, and whether a Python exception has ended the program.
World(s, t, e) == [sat |-> s, tgt |-> t, err |-> e]
SetSat(w, i, r) == [w EXCEPT !.sat[i] = r]

\* The indices of S in increasing order (the order of a list comprehension
\* over the satellites or the target points).
RECURSIVE ListOf(_)
ListOf(S) ==
  IF S = {} THEN << >>
  ELSE LET m == CHOOSE x \in S : \A y \in S : x <= y
       IN <<m>> \o ListOf(S \ {m})

Range(q) == {q[n] : n \in 1..Len(q)}

---------------------------------------------------------------------------
\* Satellite.move_to: no move within MoveEps of the goal, otherwise face the
\* goal and advance by SPEED.  MoveToward takes the offset to the goal and the
\* number by which that offset is scaled (2 for the midpoint of two beacons,
\* which need not be a whole number of position units).
MoveToward(s, off, scale) ==
  IF Mag(off) < MoveEps * scale THEN s
  ELSE [s EXCEPT !.vel = Norm(off), !.pos = s.pos + Norm(off) * SPEED]

move_to(s, tgt_pos) == MoveToward(s, tgt_pos - s.pos, 1)

\* Satellite.random_roam
random_roam(s) == [s EXCEPT !.pos = s.pos + Norm(s.vel) * SPEED]

\* step(), lines 216-225: the move chosen by the status (and, for comparison,
\* a step that tows dead satellites to the base)
StepMoveTowing(w, i) ==
  LET s == w.sat[i] IN
  IF s.status = "builder" THEN
    IF s.beacon_pair # NoPair
    THEN MoveToward(s, w.sat[s.beacon_pair[1]].pos + w.sat[s.beacon_pair[2]].pos
                        - 2 * s.pos, 2)
    ELSE s
  ELSE IF s.status = "rescue" /\ s.target.kind # "none"
    THEN move_to(s, w.sat[s.target.id].pos)
  ELSE IF s.status \in {"returning", "weak", "dead"} THEN move_to(s, BASE_POS)
  ELSE IF s.status = "free" THEN random_roam(s)
  ELSE s
StepMove(w, i) ==
  LET s == w.sat[i] IN
  IF s.status = "builder" THEN
    IF s.beacon_pair # NoPair
    THEN MoveToward(s, w.sat[s.beacon_pair[1]].pos + w.sat[s.beacon_pair[2]].pos
                        - 2 * s.pos, 2)
    ELSE s
  ELSE IF s.status = "rescue" /\ s.target.kind # "none"
    THEN move_to(s, w.sat[s.target.id].pos)
  ELSE IF s.status \in {"returning", "weak"} THEN move_to(s, BASE_POS)
  ELSE IF s.status = "free" THEN random_roam(s)
  ELSE s

\* step(), lines 227-231: reflection at the simulation bound
StepBounce(s) == IF Mag(s.pos) > Boundary THEN [s EXCEPT !.vel = -s.vel] ELSE s

\* step(), lines 233-235: fuel consumption of every status but beacon, stationed
StepDrain(s) ==
  IF s.status \notin {"beacon", "stationed"}
  THEN [s EXCEPT !.fuel = s.fuel - ICE_CONSUMPTION] ELSE s

\* step(), lines 237-245: transitions to dead and to weak (and, for comparison,
\* a step that knows no weak satellites)
StepTransitionDeadOnly(s) ==
  IF s.fuel <= 0 /\ s.status # "dead" THEN [s EXCEPT !.status = "dead", !.vel = 0]
  ELSE s
StepTransition(s) ==
  IF s.fuel <= 0 /\ s.status # "dead" THEN [s EXCEPT !.status = "dead", !.vel = 0]
  ELSE IF s.status = "free" /\ s.fuel < T_CRITICAL THEN [s EXCEPT !.status = "weak"]
  ELSE s

\* step(), lines 247-254: a returning satellite at the base is reset (and, for
\* comparison, a reset that forgets the role)
StepArriveKeepingRole(s, v) ==
  [s EXCEPT !.fuel = F_TOTAL, !.status = "free", !.vel = v, !.beacon_pair = NoPair]
StepArrive(s, v) ==
  [s EXCEPT !.fuel = F_TOTAL, !.status = "free", !.vel = v, !.role = "none",
            !.beacon_pair = NoPair]

\* self.fuel // 2 on floats: the floor of half the fuel, a whole number of units
FloorHalf(f) == (f \div (2 * FUEL_SCALE)) * FUEL_SCALE

\* step(), line 259 (and, for comparison, a transfer that does not look at the
\* room the victim has left)
RescueTransferBlind(s, t) == Min2(MIN_RESCUE_FUEL, FloorHalf(s.fuel))
RescueTransfer(s, t) ==
  Min2(Min2(MIN_RESCUE_FUEL, FloorHalf(s.fuel)), F_TOTAL - t.fuel)

\* step(), lines 256-269: the rescuer i (record s, already moved and drained)
\* within reach of its victim
StepRescue(w, i, s) ==
  LET j == s.target.id
      t == w.sat[j]
      transfer == RescueTransfer(s, t)
      tf == Min2(t.fuel + transfer, F_TOTAL)
      me == [s EXCEPT !.fuel = s.fuel - transfer, !.status = "returning",
                      !.target = NoTarget]
  IN IF s.fuel >= MIN_RESCUE_FUEL /\ transfer > 0
     THEN IF tf > T_CRITICAL
          THEN {[w EXCEPT !.sat[i] = me,
                          !.sat[j] = [t EXCEPT !.fuel = tf, !.status = "free", !.vel = v]]
                 : v \in RandomVel}
          ELSE {[w EXCEPT !.sat[i] = me, !.sat[j] = [t EXCEPT !.fuel = tf]]}
     ELSE {SetSat(w, i, s)}

\* Satellite.step of satellite i: the worlds it can leave
step(w, i) ==
  LET s == w.sat[i] IN
  IF s.status = "stationed" THEN
    LET f == s.fuel - StationedDrain
    IN {SetSat(w, i, [s EXCEPT !.fuel = f, !.status = IF f <= 0 THEN "dead" ELSE @])}
  ELSE IF s.status = "beacon" THEN
    LET f == s.fuel - BeaconDrain
    IN {SetSat(w, i, [s EXCEPT !.fuel = f, !.status = IF f <= 0 THEN "dead" ELSE @])}
  ELSE IF s.status = "rescue" /\ s.target.kind = "tp" THEN
    \* self.target.pos on a target dict: AttributeError
    {[w EXCEPT !.err = TRUE]}
  ELSE
    LET s3 == StepTransition(StepDrain(StepBounce(StepMove(w, i)))) IN
    IF s3.status = "returning" /\ Mag(s3.pos - BASE_POS) < BaseRadius
      THEN {SetSat(w, i, StepArrive(s3, v)) : v \in RandomVel}
    ELSE IF s3.status = "rescue" /\ s3.target.kind # "none"
            /\ Mag(s3.pos - w.sat[s3.target.id].pos) < RescueRadius
      THEN StepRescue(w, i, s3)
    ELSE {SetSat(w, i, s3)}

---------------------------------------------------------------------------
\* min(S, key = distance to p) and the head of a stable sort by that distance:
\* the nearest member of S, the lowest index first among equals.
Nearest(w, S, p) ==
  CHOOSE x \in S : \A y \in S :
    \/ Mag(w.sat[x].pos - p) < Mag(w.sat[y].pos - p)
    \/ (Mag(w.sat[x].pos - p) = Mag(w.sat[y].pos - p) /\ x <= y)

\* form_triplet, lines 443 and 448-455: the eligible free satellites, narrowed
\* to those near the chosen target area when at least three are
Eligible(w) == {i \in Sats : w.sat[i].status = "free" /\ w.sat[i].fuel >= T_LOW}
Unbuilt(w) == {j \in Targets : ~w.tgt[j].built}
FormPools(w, bond_radius) ==
  IF Unbuilt(w) = {} THEN {Eligible(w)}
  ELSE {LET near == {i \in Eligible(w) :
                       Mag(w.sat[i].pos - TargetPos[area]) < bond_radius * 2}
        IN IF Cardinality(near) >= 3 THEN near ELSE Eligible(w)
        : area \in Unbuilt(w)}

\* form_triplet, lines 469-474: the roles of the two beacons, by fuel
RoleOfFirst(f2, f3) == IF f2 < f3 THEN "commander" ELSE "reserver"
OtherRole(r) == IF r = "commander" THEN "reserver" ELSE "commander"

\* form_triplet, lines 465-481: seed s1 bonds with s2 and s3 (and, for
\* comparison, a bond that leaves the first beacon its velocity)
BondKeepVel(w, s1, s2, s3) ==
  LET r2 == RoleOfFirst(w.sat[s2].fuel, w.sat[s3].fuel) IN
  [w EXCEPT
     !.sat[s1] = [@ EXCEPT !.status = "builder", !.beacon_pair = <<s2, s3>>,
                           !.fuel = @ - FormationCost],
     !.sat[s2] = [@ EXCEPT !.status = "beacon", !.role = r2,
                           !.fuel = @ - FormationCost],
     !.sat[s3] = [@ EXCEPT !.status = "beacon", !.role = OtherRole(r2), !.vel = 0,
                           !.fuel = @ - FormationCost]]
Bond(w, s1, s2, s3) ==
  LET r2 == RoleOfFirst(w.sat[s2].fuel, w.sat[s3].fuel) IN
  [w EXCEPT
     !.sat[s1] = [@ EXCEPT !.status = "builder", !.beacon_pair = <<s2, s3>>,
                           !.fuel = @ - FormationCost],
     !.sat[s2] = [@ EXCEPT !.status = "beacon", !.role = r2, !.vel = 0,
                           !.fuel = @ - FormationCost],
     !.sat[s3] = [@ EXCEPT !.status = "beacon", !.role = OtherRole(r2), !.vel = 0,
                           !.fuel = @ - FormationCost]]

\* form_triplet: the outcomes [w, trip] of one call; trip is the triplet formed,
\* << >> when the call returns None
FormFrom(w, pool, s1, bond_radius) ==
  LET neighbors == {n \in pool \ {s1} :
                      Mag(w.sat[n].pos - w.sat[s1].pos) <= bond_radius}
  IN IF Cardinality(neighbors) < 2 THEN [w |-> w, trip |-> << >>]
     ELSE LET s2 == Nearest(w, neighbors, w.sat[s1].pos)
              s3 == Nearest(w, neighbors \ {s2}, w.sat[s1].pos)
          IN [w |-> Bond(w, s1, s2, s3), trip |-> <<s1, s2, s3>>]

form_triplet(w, bond_radius) ==
  IF Cardinality(Eligible(w)) < 3 THEN {[w |-> w, trip |-> << >>]}
  ELSE UNION {{FormFrom(w, pool, s1, bond_radius) : s1 \in pool}
              : pool \in FormPools(w, bond_radius)}

---------------------------------------------------------------------------
\* refuel_builder: the outcome [w, ok] of one call for builder b
RefuelAmountFullShare(donorFuel) == F_MAX_SHARE
RefuelAmount(donorFuel) ==
  Min2(Min2(F_MAX_SHARE, donorFuel \div 2), donorFuel - T_CRITICAL)

refuel_builder(w, b) ==
  IF w.sat[b].beacon_pair = NoPair THEN [w |-> w, ok |-> FALSE]
  ELSE
    LET commander == w.sat[b].beacon_pair[1]
        reserver == w.sat[b].beacon_pair[2]
        donor == IF w.sat[commander].fuel > w.sat[reserver].fuel
                 THEN commander ELSE reserver
        transfer == RefuelAmount(w.sat[donor].fuel)
        w1 == [w EXCEPT !.sat[donor].fuel = @ - transfer]
        w2 == [w1 EXCEPT !.sat[b].fuel = Min2(@ + transfer, F_TOTAL)]
        w3 == IF w2.sat[commander].fuel < w2.sat[reserver].fuel
              THEN [w2 EXCEPT !.sat[commander].role = w2.sat[reserver].role,
                              !.sat[reserver].role = w2.sat[commander].role]
              ELSE w2
    IN IF w.sat[donor].fuel > DonorMin /\ transfer > 0
       THEN [w |-> w3, ok |-> TRUE]
       ELSE [w |-> w, ok |-> FALSE]

\* The release of a bonded pair (force_restructure lines 399-408, building_step
\* lines 549-554, 610-615 and 623-628): both members become free (and, for
\* comparison, a release that leaves them their role)
ReleaseKeepingRole(s, v) == [s EXCEPT !.status = "free", !.vel = v]
ReleaseOne(s, v) == [s EXCEPT !.status = "free", !.role = "none", !.vel = v]
ReleasePair(w, pair) ==
  IF pair = NoPair THEN {w}
  ELSE {[[w EXCEPT !.sat[pair[1]] = ReleaseOne(@, v1)]
            EXCEPT !.sat[pair[2]] = ReleaseOne(@, v2)]
        : v1 \in RandomVel, v2 \in RandomVel}

\* force_restructure, lines 396-411, for one sampled builder b (and, for
\* comparison, one that leaves the builder its pair)
DisbandKeepingPair(w, b) ==
  {[w1 EXCEPT !.sat[b] = [@ EXCEPT !.status = "returning"]]
   : w1 \in ReleasePair(w, w.sat[b].beacon_pair)}
Disband(w, b) ==
  {[w1 EXCEPT !.sat[b] = [@ EXCEPT !.status = "returning", !.beacon_pair = NoPair]]
   : w1 \in ReleasePair(w, w.sat[b].beacon_pair)}

\* force_restructure: random.sample(builders, min(2, len(builders)))
force_restructure(w) ==
  LET builders == {i \in Sats : w.sat[i].status = "builder"} IN
  IF builders = {} THEN {w}
  ELSE IF Cardinality(builders) = 1
    THEN UNION {Disband(w, b) : b \in builders}
  ELSE UNION {UNION {Disband(w1, b2) : w1 \in Disband(w, b1)}
              : <<b1, b2>> \in {p \in builders \X builders : p[1] # p[2]}}

\* prioritize_rescue: victims in list order, each given the nearest satellite
\* still in the local list of free satellites with fuel > T_LOW (and, for
\* comparison, a pass that takes free satellites whatever their fuel)
RECURSIVE AssignRescuers(_, _, _)
AssignRescuers(w, victims, free) ==
  IF victims = << >> \/ free = {} THEN w
  ELSE LET victim == Head(victims)
           rescuer == Nearest(w, free, w.sat[victim].pos)
       IN AssignRescuers(
            [w EXCEPT !.sat[rescuer] = [@ EXCEPT !.status = "rescue",
                                                 !.target = SatRef(victim)]],
            Tail(victims), free \ {rescuer})

prioritize_rescueAnyFuel(w) ==
  LET dead == ListOf({i \in Sats : w.sat[i].status = "dead"})
      free == {i \in Sats : w.sat[i].status = "free"}
  IN AssignRescuers(w, SubSeq(dead, 1, Min2(3, Len(dead))), free)
prioritize_rescue(w) ==
  LET dead == ListOf({i \in Sats : w.sat[i].status = "dead"})
      free == {i \in Sats : w.sat[i].status = "free" /\ w.sat[i].fuel > T_LOW}
  IN AssignRescuers(w, SubSeq(dead, 1, Min2(3, Len(dead))), free)

---------------------------------------------------------------------------
\* calculate_priority on the axis, for the strategies regulate selects
\* (BUILD_STRATEGIES); "random" draws r
calculate_priority(pos, strategy, r) ==
  IF strategy = "bottom_up" THEN -pos
  ELSE IF strategy = "center_out" THEN -Mag(pos)
  ELSE r

\* a list sorted by key, highest first, as list.sort(key, reverse=True) leaves
\* it: equal keys keep the order of the indices
RECURSIVE RankByPriority(_, _)
RankByPriority(w, S) ==
  IF S = {} THEN << >>
  ELSE LET b == CHOOSE x \in S : \A y \in S :
                  \/ w.tgt[x].priority > w.tgt[y].priority
                  \/ (w.tgt[x].priority = w.tgt[y].priority /\ x <= y)
       IN <<b>> \o RankByPriority(w, S \ {b})

\* pull_toward_targets, line 437: s.vel * 0.6 + dir * 0.4 as a direction; when
\* the two oppose, the sign of the sum depends on the size of s.vel
Blend(vel, dir) ==
  IF dir = 0 \/ vel = dir THEN {vel}
  ELSE IF vel = 0 THEN {dir}
  ELSE {vel, dir}

\* pull_toward_targets: after random.shuffle(free), the first satellites of
\* free take the targets of `ranked` in order
RECURSIVE PullFrom(_, _, _)
PullFrom(w, ranked, free) ==
  IF ranked = << >> \/ free = {} THEN {w}
  ELSE UNION {UNION {PullFrom([w EXCEPT !.sat[i].vel = v], Tail(ranked), free \ {i})
                     : v \in Blend(w.sat[i].vel,
                                   Norm(TargetPos[Head(ranked)] - w.sat[i].pos))}
              : i \in free}

pull_toward_targets(w) ==
  LET unbuilt == {j \in Targets : ~w.tgt[j].built /\ ~w.tgt[j].locked}
      free == {i \in Sats : w.sat[i].status = "free"}
  IN PullFrom(w, RankByPriority(w, unbuilt), free)

\* AlphaAI.telemetry
Count(w, status) == Cardinality({i \in Sats : w.sat[i].status = status})
Built(w) == Cardinality({j \in Targets : w.tgt[j].built})
telemetry(w) ==
  [free |-> Count(w, "free"), builder |-> Count(w, "builder"),
   beacon |-> Count(w, "beacon"), stationed |-> Count(w, "stationed"),
   dead |-> Count(w, "dead"), weak |-> Count(w, "weak"),
   built |-> Built(w)]
\* instability > 0.25, completion < 0.3, < 0.6, < 1.0 on the counts
Unstable(tm) == 4 * (tm.weak + tm.dead) > NUM_SATELLITES
Incomplete(tm) == tm.built < Len(TargetPos)

\* regulate, lines 336-349: strategy re-selection and priority recomputation
\* (and, for comparison, a selection with the order of the strategies reversed,
\* and a re-selection that leaves the priorities as they are)
SelectStrategyReversed(tm) ==
  IF 10 * tm.built < 3 * Len(TargetPos) THEN "random"
  ELSE IF 10 * tm.built < 6 * Len(TargetPos) THEN "center_out"
  ELSE "bottom_up"
SelectStrategy(tm) ==
  IF 10 * tm.built < 3 * Len(TargetPos) THEN "bottom_up"
  ELSE IF 10 * tm.built < 6 * Len(TargetPos) THEN "center_out"
  ELSE "random"

RegStrategyKeepPriorities(st, tm, f) ==
  IF f - st.al.last_strategy_change > STRATEGY_CHANGE_INTERVAL
  THEN {[w |-> st.w,
         al |-> [st.al EXCEPT !.build_strategy = SelectStrategy(tm),
                              !.last_strategy_change = f]]}
  ELSE {st}
RegStrategy(st, tm, f) ==
  IF f - st.al.last_strategy_change > STRATEGY_CHANGE_INTERVAL
  THEN LET strat == SelectStrategy(tm) IN
       {[w |-> [st.w EXCEPT !.tgt = [j \in Targets |->
                   [st.w.tgt[j] EXCEPT !.priority =
                       calculate_priority(TargetPos[j], strat, r[j])]]],
         al |-> [st.al EXCEPT !.build_strategy = strat, !.last_strategy_change = f]]
        : r \in IF strat = "random" THEN [Targets -> RandomPriority]
                ELSE {[j \in Targets |-> 0]}}
  ELSE {st}

\* regulate, lines 351-357: bond radius adaptation and forced restructure (and,
\* for comparison, an adaptation without the two bounds)
RegInstabilityUnbounded(st, tm) ==
  IF Unstable(tm)
  THEN LET al == [st.al EXCEPT !.bond_radius = @ + BondRadiusUp]
       IN {[w |-> st.w, al |-> al]}
          \cup (IF tm.builder > 0
                THEN {[w |-> w1, al |-> al] : w1 \in force_restructure(st.w)}
                ELSE {})
  ELSE {[w |-> st.w, al |-> [st.al EXCEPT !.bond_radius = @ - BondRadiusDown]]}
RegInstability(st, tm) ==
  IF Unstable(tm)
  THEN LET al == [st.al EXCEPT !.bond_radius = Min2(BondRadiusMax, @ + BondRadiusUp)]
       IN {[w |-> st.w, al |-> al]}
          \cup (IF tm.builder > 0
                THEN {[w |-> w1, al |-> al] : w1 \in force_restructure(st.w)}
                ELSE {})
  ELSE {[w |-> st.w,
         al |-> [st.al EXCEPT !.bond_radius = Max2(BondRadiusMin, @ - BondRadiusDown)]]}

\* regulate, lines 359-361
RegRescue(st, tm) ==
  IF tm.dead > 0 THEN {st, [st EXCEPT !.w = prioritize_rescue(st.w)]} ELSE {st}

\* regulate, lines 363-367: no builders while construction is incomplete
RegStuck(st, tm, f) ==
  IF tm.builder = 0 /\ Incomplete(tm) /\ tm.free >= 3 /\ f % 100 = 0
  THEN {[st EXCEPT !.w = o.w] : o \in form_triplet(st.w, st.al.bond_radius)}
  ELSE {st}

\* regulate, lines 369-377: reactivation of up to three stationed satellites
\* (and, for comparison, one that does not read the telemetry)
RECURSIVE Reactivate(_, _)
Reactivate(w, list) ==
  IF list = << >> THEN {w}
  ELSE UNION {Reactivate([w EXCEPT !.sat[Head(list)] =
                             [@ EXCEPT !.status = "free", !.vel = v]], Tail(list))
              : v \in RandomVel}

RegReactivateAlways(st, tm) ==
  LET stationed_sats == ListOf({i \in Sats : st.w.sat[i].status = "stationed"})
  IN {[st EXCEPT !.w = w1]
      : w1 \in Reactivate(st.w, SubSeq(stationed_sats, 1, Min2(3, Len(stationed_sats))))}
RegReactivate(st, tm) ==
  IF tm.free < 5 /\ tm.stationed > 0 /\ Incomplete(tm)
  THEN LET stationed_sats == ListOf({i \in Sats : st.w.sat[i].status = "stationed"})
       IN {[st EXCEPT !.w = w1]
           : w1 \in Reactivate(st.w, SubSeq(stationed_sats, 1,
                                            Min2(3, Len(stationed_sats))))}
  ELSE {st}

\* regulate, lines 381-383
RegPull(st, f) ==
  IF f % 40 = 0 THEN {[st EXCEPT !.w = w1] : w1 \in pull_toward_targets(st.w)}
  ELSE {st}

\* regulate, lines 385-389: periodic formation, at most once per TripletInterval
\* (and, for comparison, one that records the frame of a failed attempt too)
RegPeriodicAlwaysStamps(st, f) ==
  IF f - st.al.last_triplet_frame > TripletInterval
  THEN {[w |-> o.w, al |-> [st.al EXCEPT !.last_triplet_frame = f]]
        : o \in form_triplet(st.w, st.al.bond_radius)}
  ELSE {st}
RegPeriodic(st, f) ==
  IF f - st.al.last_triplet_frame > TripletInterval
  THEN {[w |-> o.w,
         al |-> IF o.trip # << >> THEN [st.al EXCEPT !.last_triplet_frame = f]
                ELSE st.al]
        : o \in form_triplet(st.w, st.al.bond_radius)}
  ELSE {st}

\* AlphaAI.regulate(frame): the outcomes [w, al] of one call
regulate(w, al, f) ==
  LET tm == telemetry(w)
      s1 == RegStrategy([w |-> w, al |-> al], tm, f)
      s2 == UNION {RegInstability(x, tm) : x \in s1}
      s3 == UNION {RegRescue(x, tm) : x \in s2}
      s4 == UNION {RegStuck(x, tm, f) : x \in s3}
      s5 == UNION {RegReactivate(x, tm) : x \in s4}
      s6 == UNION {RegPull(x, f) : x \in s5}
  IN UNION {RegPeriodic(x, f) : x \in s6}

---------------------------------------------------------------------------
\* check_collision_path(s, target_dict): another builder holds a reference to
\* target j and is strictly nearer to it than satellite i
check_collision_path(w, i, j) ==
  \E other \in Sats :
     /\ w.sat[other].status = "builder" /\ other # i
     /\ w.sat[other].target = TgtRef(j)
     /\ Mag(w.sat[other].pos - TargetPos[j]) < Mag(w.sat[i].pos - TargetPos[j])

\* building_step, lines 560-562 (times ten)
Score(w, i, j) ==
  w.tgt[j].priority * PRIORITY_WEIGHT
    - Mag(TargetPos[j] - w.sat[i].pos) * DISTANCE_WEIGHT

\* building_step, line 565: unbuilt.sort(key=score, reverse=True)
RECURSIVE RankByScore(_, _, _)
RankByScore(w, i, S) ==
  IF S = {} THEN << >>
  ELSE LET b == CHOOSE x \in S : \A y \in S :
                  \/ Score(w, i, x) > Score(w, i, y)
                  \/ (Score(w, i, x) = Score(w, i, y) /\ x <= y)
       IN <<b>> \o RankByScore(w, i, S \ {b})

\* building_step, lines 567-576: the first candidate that no nearer builder is
\* heading for, or the top candidate when there is none (and, for comparison,
\* a choice that always takes the top candidate)
RECURSIVE FirstFree(_, _, _)
FirstFree(w, i, ranked) ==
  IF ranked = << >> THEN 0
  ELSE IF ~check_collision_path(w, i, Head(ranked)) THEN Head(ranked)
  ELSE FirstFree(w, i, Tail(ranked))

ChooseTargetTop(w, i, unbuilt) == RankByScore(w, i, unbuilt)[1]
ChooseTarget(w, i, unbuilt) ==
  LET ranked == RankByScore(w, i, unbuilt)
      c == FirstFree(w, i, ranked)
  IN IF c = 0 THEN ranked[1] ELSE c

\* building_step, lines 526-530: the sweep of stale locks (and, for comparison,
\* a sweep that forgets the owner of a stale lock in one pass and unlocks the
\* target in the next)
StaleLock(w, j) ==
  w.tgt[j].locked /\ (w.tgt[j].builder = 0 \/ w.sat[w.tgt[j].builder].status # "builder")
SweepLocksInTwoPasses(w) ==
  [w EXCEPT !.tgt = [j \in Targets |->
      IF ~StaleLock(w, j) THEN w.tgt[j]
      ELSE IF w.tgt[j].builder = 0 THEN [w.tgt[j] EXCEPT !.locked = FALSE]
      ELSE [w.tgt[j] EXCEPT !.builder = 0]]]
SweepLocks(w) ==
  [w EXCEPT !.tgt = [j \in Targets |->
      IF StaleLock(w, j) THEN [w.tgt[j] EXCEPT !.locked = FALSE, !.builder = 0]
      ELSE w.tgt[j]]]

\* building_step, lines 535-537: the builder keeps its current target
KeepsTarget(w, i, f) ==
  LET s == w.sat[i] IN
  /\ s.target.kind = "tp"
  /\ ~w.tgt[s.target.id].built
  /\ w.tgt[s.target.id].builder = i
  /\ w.tgt[s.target.id].locked
  /\ f - s.last_goal_revision < GOAL_REVISION_INTERVAL

\* building_step, lines 545-557: no target left for builder i
GiveUp(w, i) ==
  {[w1 EXCEPT !.sat[i] = [@ EXCEPT !.beacon_pair = NoPair, !.target = NoTarget]]
   : w1 \in ReleasePair([w EXCEPT !.sat[i].status = "returning"], w.sat[i].beacon_pair)}

\* building_step, lines 578-582: lock target j for builder i
LockTarget(w, i, j, f) ==
  [w EXCEPT !.tgt[j] = [@ EXCEPT !.locked = TRUE, !.builder = i],
            !.sat[i] = [@ EXCEPT !.target = TgtRef(j), !.last_goal_revision = f]]

\* building_step, lines 603-616: the builder parks at the finished target j
Station(w, i, j) ==
  {[w1 EXCEPT !.sat[i].beacon_pair = NoPair]
   : w1 \in ReleasePair(
        [w EXCEPT !.sat[i] = [@ EXCEPT !.status = "stationed", !.pos = TargetPos[j],
                                       !.vel = 0]],
        w.sat[i].beacon_pair)}

\* building_step, lines 618-629: refuel check after a completed target
RefuelCheck(w, i) ==
  IF w.sat[i].fuel < T_LOW /\ w.sat[i].status # "stationed"
  THEN LET o == refuel_builder(w, i) IN
       IF o.ok THEN {o.w}
       ELSE {[w1 EXCEPT !.sat[i].beacon_pair = NoPair]
             : w1 \in ReleasePair([w EXCEPT !.sat[i].status = "returning"],
                                  w.sat[i].beacon_pair)}
  ELSE {w}

\* building_step, lines 593-629: target j completed by builder i (and, for
\* comparison, a completion that leaves the target locked)
CompleteKeepingLock(w, i, j) ==
  LET w1 == [w EXCEPT !.tgt[j] = [@ EXCEPT !.built = TRUE],
                      !.sat[i] = [@ EXCEPT !.fuel = @ - BuildCost,
                                           !.target = NoTarget]]
  IN UNION {RefuelCheck(w2, i) : w2 \in {w1} \cup Station(w1, i, j)}
Complete(w, i, j) ==
  LET w1 == [w EXCEPT !.tgt[j] = [@ EXCEPT !.built = TRUE, !.locked = FALSE,
                                           !.builder = 0],
                      !.sat[i] = [@ EXCEPT !.fuel = @ - BuildCost,
                                           !.target = NoTarget]]
  IN UNION {RefuelCheck(w2, i) : w2 \in {w1} \cup Station(w1, i, j)}

\* building_step, lines 584-629: move to target j and build within reach
Approach(w, i, j) ==
  LET w1 == SetSat(w, i, move_to(w.sat[i], TargetPos[j])) IN
  IF Mag(w1.sat[i].pos - TargetPos[j]) < ARRIVAL_RADIUS
  THEN LET w2 == [w1 EXCEPT !.tgt[j].build_progress = @ + 1] IN
       IF ProgressReached(w2.tgt[j].build_progress) THEN Complete(w2, i, j)
       ELSE {w2}
  ELSE {w1}

\* building_step, lines 533-629: the body of the loop for satellite i
BuildOne(w, i, f) ==
  LET s == w.sat[i] IN
  IF s.status = "builder" /\ s.beacon_pair # NoPair THEN
    IF s.target.kind = "sat" THEN
      \* s.target["built"] on a Satellite: TypeError
      {[w EXCEPT !.err = TRUE]}
    ELSE IF KeepsTarget(w, i, f) THEN Approach(w, i, s.target.id)
    ELSE
      LET unbuilt == {j \in Targets : ~w.tgt[j].built /\ ~w.tgt[j].locked} IN
      IF unbuilt = {} THEN GiveUp(w, i)
      ELSE LET j == ChooseTarget(w, i, unbuilt)
           IN Approach(LockTarget(w, i, j, f), i, j)
  ELSE {w}

---------------------------------------------------------------------------
\* main loop, lines 677-690: weak satellites draw fuel from a reserver beacon
\* (and, for comparison, an aid that takes the full share from the beacon)
AidOneFullShare(w, i) ==
  LET reservers == {r \in Sats : /\ w.sat[r].status = "beacon"
                                /\ w.sat[r].role = "reserver"
                                /\ w.sat[r].fuel > DonorMin}
  IN IF reservers = {} THEN w
     ELSE LET nearest == Nearest(w, reservers, w.sat[i].pos)
          IN IF Mag(w.sat[i].pos - w.sat[nearest].pos) < AidRadius
             THEN [[w EXCEPT !.sat[nearest].fuel = @ - F_MAX_SHARE]
                      EXCEPT !.sat[i] = [@ EXCEPT !.fuel = Min2(@ + F_MAX_SHARE, F_TOTAL),
                                                  !.status = "free"]]
             ELSE w
AidOne(w, i) ==
  LET reservers == {r \in Sats : /\ w.sat[r].status = "beacon"
                                /\ w.sat[r].role = "reserver"
                                /\ w.sat[r].fuel > DonorMin}
  IN IF reservers = {} THEN w
     ELSE LET nearest == Nearest(w, reservers, w.sat[i].pos)
              transfer == Min2(F_MAX_SHARE, w.sat[nearest].fuel - T_CRITICAL)
          IN IF Mag(w.sat[i].pos - w.sat[nearest].pos) < AidRadius /\ transfer > 0
             THEN [[w EXCEPT !.sat[nearest].fuel = @ - transfer]
                      EXCEPT !.sat[i] = [@ EXCEPT !.fuel = Min2(@ + transfer, F_TOTAL),
                                                  !.status = "free"]]
             ELSE w

RECURSIVE AidLoop(_, _)
AidLoop(w, weak) ==
  IF weak = << >> THEN w ELSE AidLoop(AidOne(w, Head(weak)), Tail(weak))

weak_aid(w) == AidLoop(w, ListOf({i \in Sats : w.sat[i].status = "weak"}))

---------------------------------------------------------------------------
\* The main loop (lines 647-690).  One iteration is: regulate(frame); step() of
\* every satellite in turn; building_step(frame), which is the sweep followed by
\* the loop body for every satellite in turn; form_triplet when frame % 240 = 0;
\* the aid to weak satellites.  pc is the position in the iteration and k the
\* satellite the current loop has reached.  A Python exception ends the program.
Now == World(sat, tgt, FALSE)

Regulate ==
  /\ pc = "regulate" /\ frame < horizon
  /\ \E o \in regulate(Now, alpha, frame + 1) :
        /\ sat' = o.w.sat /\ tgt' = o.w.tgt /\ alpha' = o.al
  /\ frame' = frame + 1
  /\ pc' = "step" /\ k' = 1
  /\ UNCHANGED horizon

Step ==
  /\ pc = "step"
  /\ \E w1 \in step(Now, k) :
        /\ sat' = w1.sat
        /\ pc' = IF w1.err THEN "crashed"
                 ELSE IF k = NUM_SATELLITES THEN "sweep" ELSE "step"
  /\ k' = IF k = NUM_SATELLITES THEN 1 ELSE k + 1
  /\ UNCHANGED <<tgt, alpha, frame, horizon>>

Sweep ==
  /\ pc = "sweep"
  /\ tgt' = SweepLocks(Now).tgt
  /\ pc' = "build" /\ k' = 1
  /\ UNCHANGED <<sat, alpha, frame, horizon>>

Build ==
  /\ pc = "build"
  /\ \E w1 \in BuildOne(Now, k, frame) :
        /\ sat' = w1.sat /\ tgt' = w1.tgt
        /\ pc' = IF w1.err THEN "crashed"
                 ELSE IF k = NUM_SATELLITES THEN "form" ELSE "build"
  /\ k' = IF k = NUM_SATELLITES THEN 1 ELSE k + 1
  /\ UNCHANGED <<alpha, frame, horizon>>

MainFormTriplet ==
  /\ pc = "form"
  /\ \E o \in (IF frame % 240 = 0 THEN form_triplet(Now, alpha.bond_radius)
               ELSE {[w |-> Now, trip |-> << >>]}) :
        sat' = o.w.sat
  /\ pc' = "aid"
  /\ UNCHANGED <<tgt, alpha, frame, k, horizon>>

WeakAid ==
  /\ pc = "aid"
  /\ sat' = weak_aid(Now).sat
  /\ pc' = "regulate"
  /\ UNCHANGED <<tgt, alpha, frame, k, horizon>>

Next == Regulate \/ Step \/ Sweep \/ Build \/ MainFormTriplet \/ WeakAid

---------------------------------------------------------------------------
\* Satellite.__init__ (fuel, status, role, target, beacon_pair,
\* last_goal_revision), the target records of lines 146-154 and
\* AlphaAI.__init__
Satellite(pos, vel) ==
  [pos |-> pos, vel |-> vel, fuel |-> F_TOTAL, status |-> "free", role |-> "none",
   target |-> NoTarget, beacon_pair |-> NoPair, last_goal_revision |-> 0]

target_spheres ==
  [j \in Targets |->
     [built |-> FALSE, builder |-> 0, locked |-> FALSE,
      priority |-> calculate_priority(TargetPos[j], "bottom_up", 0),
      build_progress |-> 0]]

AlphaAI ==
  [bond_radius |-> BOND_RADIUS, last_triplet_frame |-> -999,
   build_strategy |-> "bottom_up", last_strategy_change |-> 0]

\* The swarm at program start, lines 632-635: the satellites are created at
\* random places (here three groups along the axis, within the range of
\* random.uniform(-5, 30)), with random headings, and form_triplet(BOND_RADIUS)
\* is called once.
BootPlaces == <<80, 110, 140, -40, -10, 20, 200, 230, 260>>
BootPos(i) == IF i <= Len(BootPlaces) THEN BootPlaces[i] ELSE 30 * POS_SCALE
BootVel(i) == IF i % 2 = 0 THEN 1 ELSE -1
BootScenes ==
  {[sat |-> o.w.sat, tgt |-> o.w.tgt, alpha |-> AlphaAI, frame |-> 0,
    ticks |-> MaxTicks]
   : o \in form_triplet(World([i \in Sats |-> Satellite(BootPos(i), BootVel(i))],
                              target_spheres, FALSE), BOND_RADIUS)}

Start(scenes) ==
  \E sc \in scenes :
     /\ sat = sc.sat /\ tgt = sc.tgt /\ alpha = sc.alpha /\ frame = sc.frame
     /\ horizon = sc.frame + sc.ticks
     /\ pc = "regulate" /\ k = 1

InitBoot == Start(BootScenes)
SpecBoot == InitBoot /\ [][Next]_vars

---------------------------------------------------------------------------
\* Snapshots of a run that has been going for a while.  Every field holds a
\* value the program can have at that point: a bonded triplet is a builder with
\* its two beacons at rest, a locked target names its builder, a weak satellite
\* has less than T_CRITICAL fuel.
Agent(pos, vel, fuel, status, role, target, pair, rev) ==
  [pos |-> pos, vel |-> vel, fuel |-> fuel, status |-> status, role |-> role,
   target |-> target, beacon_pair |-> pair, last_goal_revision |-> rev]

\* a free satellite with too little fuel to bond or to rescue
Idle(i) == Agent(40 * POS_SCALE + 2 * POS_SCALE * i, BootVel(i), 20 * FUEL_SCALE,
                 "free", "none", NoTarget, NoPair, 0)

TargetAt(j, built, builder, progress) ==
  [target_spheres[j] EXCEPT !.built = built, !.builder = builder,
                            !.locked = (builder # 0), !.build_progress = progress]

\* Frame 300.  Builder 1 with beacons 2 and 3 works on the target at the base,
\* three visits short of completion.  Satellite 4 is either idle or a rescuer
\* that was sent to satellite 3 when 3 was dead and has not arrived yet
\* (prioritize_rescue sends one more rescuer on every call, and 3 has since
\* been revived and bonded).  Satellite 5 is weak and nearly empty, satellite 6
\* is free and about to fall below T_CRITICAL.
BuilderFuels == {32 * FUEL_SCALE, 60 * FUEL_SCALE}
BeaconFuels == {BeaconDrain, 28 * FUEL_SCALE, 50 * FUEL_SCALE}
WorkSat(i, fx, fb, stray) ==
  CASE i = 1 -> Agent(0, 0, fx, "builder", "none", TgtRef(1), <<2, 3>>, 290)
    [] i = 2 -> Agent(-10, 0, fb, "beacon", "commander", NoTarget, NoPair, 0)
    [] i = 3 -> Agent(10, 0, 25 * FUEL_SCALE, "beacon", "reserver", NoTarget, NoPair, 0)
    [] i = 4 -> IF stray
                THEN Agent(30, -1, 60 * FUEL_SCALE, "rescue", "none", SatRef(3), NoPair, 0)
                ELSE Idle(i)
    [] i = 5 -> Agent(20, -1, ICE_CONSUMPTION \div 3, "weak", "none", NoTarget, NoPair, 0)
    [] i = 6 -> Agent(200, 1, T_CRITICAL + ICE_CONSUMPTION \div 3, "free", "none",
                      NoTarget, NoPair, 0)
    [] OTHER -> Idle(i)
WorkScenes ==
  {[sat |-> [i \in Sats |-> WorkSat(i, fx, fb, stray)],
    tgt |-> [j \in Targets |-> IF j = 1 THEN TargetAt(1, FALSE, 1, ProgressDone - 3)
                               ELSE target_spheres[j]],
    alpha |-> [AlphaAI EXCEPT !.bond_radius = BondRadiusMin, !.last_triplet_frame = 290],
    frame |-> 300, ticks |-> LateTicks]
   : fx \in BuilderFuels, fb \in BeaconFuels, stray \in BOOLEAN}

\* Frame 239.  Builder 1 with beacons 2 and 3 holds the target at the base; the
\* target below it is built.  Satellites 4 to 6 are free with fuel to bond,
\* satellites 7 and 8 are weak and far from the base.  Satellite 9 is either
\* weak as well, which makes the swarm unstable (instability above 0.25), or
\* free with nearly full fuel and out of bonding reach of the others; it has
\* been revived and reset at the base since satellite 8 was sent to rescue it,
\* and satellite 8 is about to reach it.  The next frame is a multiple of 240.
CrowdSat(i, calm) ==
  CASE i = 1 -> Agent(10, 0, 60 * FUEL_SCALE, "builder", "none", TgtRef(1), <<2, 3>>, 220)
    [] i = 2 -> Agent(-20, 0, 50 * FUEL_SCALE, "beacon", "commander", NoTarget, NoPair, 0)
    [] i = 3 -> Agent(40, 0, 55 * FUEL_SCALE, "beacon", "reserver", NoTarget, NoPair, 0)
    [] i \in 4..6 -> Agent(20 * i + 20, BootVel(i), (140 - 10 * i) * FUEL_SCALE,
                           "free", "none", NoTarget, NoPair, 0)
    [] i = 8 /\ calm -> Agent(-10 * POS_SCALE + RescueRadius + SPEED \div 2, -1,
                              50 * FUEL_SCALE, "rescue", "none", SatRef(9), NoPair, 0)
    [] i \in 7..8 -> Agent(40 * POS_SCALE + 20 * i, -1, 10 * FUEL_SCALE, "weak", "none",
                           NoTarget, NoPair, 0)
    [] i = 9 -> IF calm
                THEN Agent(-10 * POS_SCALE, -1, 95 * FUEL_SCALE, "free", "none",
                           NoTarget, NoPair, 0)
                ELSE Agent(58 * POS_SCALE, -1, 10 * FUEL_SCALE, "weak", "none",
                           NoTarget, NoPair, 0)
    [] OTHER -> Idle(i)
CrowdScenes ==
  {[sat |-> [i \in Sats |-> CrowdSat(i, calm)],
    tgt |-> [j \in Targets |-> IF j = 1 THEN TargetAt(1, FALSE, 1, 5)
                               ELSE IF j = 2 THEN TargetAt(2, TRUE, 0, ProgressDone)
                               ELSE target_spheres[j]],
    alpha |-> [AlphaAI EXCEPT !.last_triplet_frame = 100],
    frame |-> 239, ticks |-> 1]
   : calm \in BOOLEAN}

\* Frame 600, the last frame before the strategy is reconsidered (the strategy
\* has not changed since the start).  `done` target points are built: none, the
\* upper one, or the upper and the lower one.  Either builder 1 with beacons 2
\* and 3 is one visit short of completing the target at the base (its first
\* beacon carries the role reserver, as form_triplet leaves it when the first
\* neighbour has no less fuel than the second), or satellites 1 to 3 are free
\* with fuel to bond and no triplet exists.  Satellite 6 is dead.  Satellite 5,
\* once dead itself, has been revived and sent to satellite 6; satellite 4 is
\* the last of the rescuers that were sent to satellite 5 and is about to reach
\* it.  Satellites 7 and 8 roam nearby with fuel to bond.  The builder of the
\* upper target, satellite 9, is stationed on it once it is built.
TurnSat(i, closing, done) ==
  CASE i = 1 -> IF closing
                THEN Agent(0, 0, 29 * FUEL_SCALE, "builder", "none", TgtRef(1), <<2, 3>>, 590)
                ELSE Agent(0, 1, 35 * FUEL_SCALE, "free", "none", NoTarget, NoPair, 0)
    [] i = 2 -> IF closing
                THEN Agent(-10, 0, 50 * FUEL_SCALE, "beacon", "reserver", NoTarget, NoPair, 0)
                ELSE Agent(-10, 1, 56 * FUEL_SCALE, "free", "none", NoTarget, NoPair, 0)
    [] i = 3 -> IF closing
                THEN Agent(10, 0, 25 * FUEL_SCALE, "beacon", "commander", NoTarget, NoPair, 0)
                ELSE Agent(10, -1, 31 * FUEL_SCALE, "free", "none", NoTarget, NoPair, 0)
    [] i = 4 -> Agent(31 * POS_SCALE, -1, 50 * FUEL_SCALE, "rescue", "none", SatRef(5),
                      NoPair, 0)
    [] i = 5 -> Agent(30 * POS_SCALE, 1, 40 * FUEL_SCALE, "rescue", "none", SatRef(6),
                      NoPair, 0)
    [] i = 6 -> Agent(55 * POS_SCALE, 0, -2 * FUEL_SCALE, "dead", "none", NoTarget, NoPair, 0)
    [] i \in 7..8 -> Agent(30 * POS_SCALE + 20 * (i - 6), BootVel(i), 70 * FUEL_SCALE,
                           "free", "none", NoTarget, NoPair, 0)
    [] i = 9 /\ done >= 1 -> Agent(TargetPos[3], 0, 30 * FUEL_SCALE, "stationed", "none",
                                   NoTarget, NoPair, 0)
    [] OTHER -> Idle(i)
TurnScenes ==
  {[sat |-> [i \in Sats |-> TurnSat(i, closing, done)],
    tgt |-> [j \in Targets |->
               IF j = 1 THEN (IF closing THEN TargetAt(1, FALSE, 1, ProgressDone - 1)
                              ELSE target_spheres[1])
               ELSE IF (j = 3 /\ done >= 1) \/ (j = 2 /\ done >= 2)
                    THEN TargetAt(j, TRUE, 0, ProgressDone)
               ELSE target_spheres[j]],
    alpha |-> [AlphaAI EXCEPT !.last_triplet_frame = 480],
    frame |-> 600, ticks |-> IF closing /\ done = 2 THEN 3 ELSE 2]
   : done \in 0..2, closing \in BOOLEAN}

\* Frame 700.  Builder 1 with beacons 2 and 3 stands on the lower target, one
\* visit short of completing it.  It may also still hold the lock of the target
\* at the base, which it held before its goal was revised (a revision locks a
\* new target and leaves the old lock to its owner).  Of the other satellites
\* either four are dead and two roam with fuel to rescue, or all roam: 4 to 6
\* near the base with fuel to bond, 5 being a former builder that was
\* disbanded while it worked on the target at the base and has since been
\* reset at the base (neither clears its target), and 7 and 8 weak, on their
\* way to the base past beacon 3.  Beacon 3, the reserver, has fuel 50 or 33.2; the
\* commander has less.  The upper target may be built.  The next formation is
\* due at frame 702.
ParkSat(i, crowded, share) ==
  CASE i = 1 -> Agent(TargetPos[2], 0, 60 * FUEL_SCALE, "builder", "none", TgtRef(2),
                      <<2, 3>>, 695)
    [] i = 2 -> Agent(TargetPos[2] - 10, 0, 32 * FUEL_SCALE, "beacon", "commander",
                      NoTarget, NoPair, 0)
    [] i = 3 -> Agent(TargetPos[2] + 10, 0, share, "beacon", "reserver",
                      NoTarget, NoPair, 0)
    [] i \in 7..8 /\ crowded ->
                Agent(TargetPos[2] - 50 + 10 * i, 1, 5 * FUEL_SCALE, "weak", "none",
                      NoTarget, NoPair, 0)
    [] i \in 4..6 /\ crowded ->
                Agent(50 - 20 * (i - 3), BootVel(i), 30 * ((i % 2) + 2) * FUEL_SCALE, "free",
                      "none", IF i = 5 THEN TgtRef(1) ELSE NoTarget, NoPair, 0)
    [] i \in 4..7 /\ ~crowded ->
                Agent(40 * POS_SCALE + 2 * POS_SCALE * i, 0, -2 * FUEL_SCALE, "dead", "none",
                      NoTarget, NoPair, 0)
    [] i \in 8..9 /\ ~crowded ->
                Agent(14 * POS_SCALE + 2 * POS_SCALE * i, BootVel(i), 40 * FUEL_SCALE, "free",
                      "none", NoTarget, NoPair, 0)
    [] OTHER -> IF crowded THEN Idle(i)
                ELSE Agent(40 * POS_SCALE + 2 * POS_SCALE * i, -1, 20 * FUEL_SCALE,
                           "returning", "none", NoTarget, NoPair, 0)
ParkScenes ==
  {[sat |-> [i \in Sats |-> ParkSat(i, crowded, share)],
    tgt |-> [j \in Targets |-> IF j = 1 THEN TargetAt(1, FALSE, IF held THEN 1 ELSE 0, 3)
                               ELSE IF j = 2 THEN TargetAt(2, FALSE, 1, ProgressDone - 1)
                               ELSE IF upper THEN TargetAt(3, TRUE, 0, ProgressDone)
                               ELSE target_spheres[j]],
    alpha |-> [AlphaAI EXCEPT !.last_triplet_frame = 581, !.last_strategy_change = 601],
    frame |-> 700, ticks |-> 2]
   : held \in BOOLEAN, upper \in BOOLEAN, crowded \in BOOLEAN,
     share \in {50 * FUEL_SCALE, 332 * (FUEL_SCALE \div 10)}}

\* Frame 1000.  Three triplets are at work, one at each target; in `lost` of
\* them the second beacon has run out of fuel and died (a beacon that dies
\* stays in its builder's pair).  With three dead satellites of nine the
\* instability is above 0.25, with two it is not.  The bond radius has grown to
\* one unit below its upper bound.  The third triplet was formed four units
\* from its target: its builder is drawn to the middle of its beacons by step()
\* and to the target by building_step in every tick, has not come within
\* ARRIVAL_RADIUS of the target since, and where three beacons are lost it has
\* fuel for less than one tick.
\* The goal of the first builder is due for revision in the next frame.
StrainSat(i, lost) ==
  LET t == (i + 2) \div 3
      at == IF t \in Targets
            THEN (IF t = 3 THEN TargetPos[t] - 4 * POS_SCALE ELSE TargetPos[t])
            ELSE 0
  IN CASE t \in Targets /\ i % 3 = 1 ->
            IF t = 3
            THEN Agent(at + 2 * SPEED, 1,
                       IF lost = 3 THEN 2 * (ICE_CONSUMPTION \div 3) ELSE 80 * FUEL_SCALE,
                       "builder", "none", TgtRef(t), <<i + 1, i + 2>>, 990)
            ELSE Agent(at, 0, (50 + 10 * t) * FUEL_SCALE, "builder", "none", TgtRef(t),
                       <<i + 1, i + 2>>, IF t = 1 THEN 1001 - GOAL_REVISION_INTERVAL ELSE 990)
       [] t \in Targets /\ i % 3 = 2 ->
            Agent(at - 10, 0, 20 * FUEL_SCALE, "beacon", "commander", NoTarget, NoPair, 0)
       [] t \in Targets /\ i % 3 = 0 ->
            IF t <= lost
            THEN Agent(at + 10, 0, -BeaconDrain, "dead", "reserver", NoTarget, NoPair, 0)
            ELSE Agent(at + 10, 0, 25 * FUEL_SCALE, "beacon", "reserver", NoTarget, NoPair, 0)
       [] OTHER -> Idle(i)
StrainScenes ==
  {[sat |-> [i \in Sats |-> StrainSat(i, lost)],
    tgt |-> [j \in Targets |-> TargetAt(j, FALSE, 3 * j - 2, 2 * j)],
    alpha |-> [AlphaAI EXCEPT !.bond_radius = BondRadiusMax - POS_SCALE,
                              !.last_triplet_frame = 990, !.last_strategy_change = 601],
    frame |-> 1000, ticks |-> 1]
   : lost \in 2..3}

\* Frame 1201, the last frame before the strategy is reconsidered for the
\* second time.  The strategy is the one selected at frame 601 from the
\* completion of that time, the priorities are those it gave, and `done`
\* targets are built now, no fewer than then.  All satellites roam far from
\* each other's reach, low on fuel.  Satellite 9 has just crossed the
\* simulation bound, by less than one step, and been turned back by step();
\* satellite 8, sent to rescue it when it was dead, is about to reach it.
LateSat(i) ==
  CASE i = 8 -> Agent(Boundary + 3 - RescueRadius - SPEED \div 2, 1, 50 * FUEL_SCALE,
                      "rescue", "none", SatRef(9), NoPair, 0)
    [] i = 9 -> Agent(Boundary + 3, -1, 20 * FUEL_SCALE, "free", "none", NoTarget, NoPair, 0)
    [] OTHER -> Idle(i)
LateScenes ==
  {[sat |-> [i \in Sats |-> LateSat(i)],
    tgt |-> [j \in Targets |->
               [(IF (j = 3 /\ c[2] >= 1) \/ (j = 2 /\ c[2] >= 2)
                 THEN TargetAt(j, TRUE, 0, ProgressDone) ELSE target_spheres[j])
                EXCEPT !.priority = calculate_priority(TargetPos[j], c[1],
                                                       IF j = 2 THEN 9 ELSE 0)]],
    alpha |-> [AlphaAI EXCEPT !.build_strategy = c[1], !.last_strategy_change = 601,
                              !.last_triplet_frame = 1190],
    frame |-> 1201, ticks |-> 2]
   : c \in {<<"bottom_up", 1>>, <<"center_out", 1>>, <<"center_out", 2>>, <<"random", 2>>}}

Init == Start(WorkScenes \cup CrowdScenes \cup TurnScenes \cup ParkScenes \cup StrainScenes
              \cup LateScenes)
Spec == Init /\ [][Next]_vars

---------------------------------------------------------------------------
\* Properties.

Builders == {i \in Sats : sat[i].status = "builder"}

\* C1: the fuel of every satellite stays between 0 and F_TOTAL, whatever
\* changes it (the drain of step() for every status, dead included, the
\* formation cost, the construction cost, the transfers).
C1_FuelWithinBounds ==
  \A i \in Sats : 0 <= sat[i].fuel /\ sat[i].fuel <= F_TOTAL

\* C2: a locked target has an owner, and the owner's target is that target;
\* every step of the allocator keeps this, the re-request of a builder whose
\* goal is older than the revision interval included.
C2_LockedHasOwner ==
  \A j \in Targets :
     tgt[j].locked => /\ tgt[j].builder # 0
                      /\ sat[tgt[j].builder].target = TgtRef(j)

\* C3: never do two distinct builders hold the same target point as their
\* locked target, also after builders died, were disbanded, revived, returned
\* to base and were bonded again.
C3_OneBuilderPerTarget ==
  \A i, j \in Builders :
     (i # j /\ sat[i].target.kind = "tp" /\ sat[i].target = sat[j].target)
        => ~tgt[sat[i].target.id].locked

\* C4: the beacon pair of every builder names two distinct satellites, neither
\* of them dead.
C4_PairDistinctAlive ==
  \A i \in Builders :
     /\ Len(sat[i].beacon_pair) = 2
     /\ sat[i].beacon_pair[1] # sat[i].beacon_pair[2]
     /\ sat[sat[i].beacon_pair[1]].status # "dead"
     /\ sat[sat[i].beacon_pair[2]].status # "dead"

\* C5: every beacon has velocity zero and the role commander or reserver.
C5_BeaconAtRestWithRole ==
  \A i \in Sats :
     sat[i].status = "beacon"
        => sat[i].vel = 0 /\ sat[i].role \in {"commander", "reserver"}

\* The main loop is about to call form_triplet, and three free satellites with
\* fuel >= T_LOW are within the bond radius of each other.
FormCall == pc = "form" /\ frame % 240 = 0
Close(a, b) == Mag(sat[a].pos - sat[b].pos) <= alpha.bond_radius
ThreeInReach ==
  \E a, b, c \in Eligible(Now) :
     a # b /\ a # c /\ b # c /\ Close(a, b) /\ Close(a, c) /\ Close(b, c)

\* The call has made s1 a builder bonded to the beacons s2 and s3, and has
\* changed nothing else.
Bonded(s1, s2, s3) ==
  /\ sat'[s1] = [sat[s1] EXCEPT !.status = "builder", !.beacon_pair = <<s2, s3>>,
                                !.fuel = @ - FormationCost]
  /\ \E r \in {"commander", "reserver"} :
        /\ sat'[s2] = [sat[s2] EXCEPT !.status = "beacon", !.vel = 0, !.role = r,
                                      !.fuel = @ - FormationCost]
        /\ sat'[s3] = [sat[s3] EXCEPT !.status = "beacon", !.vel = 0,
                                      !.role = OtherRole(r),
                                      !.fuel = @ - FormationCost]
  /\ sat[s2].fuel < sat[s3].fuel => sat'[s2].role = "commander"
  /\ sat[s3].fuel < sat[s2].fuel => sat'[s3].role = "commander"
  /\ \A o \in Sats \ {s1, s2, s3} : sat'[o] = sat[o]
  /\ tgt' = tgt
OneTripletFormed ==
  \E s1, s2, s3 \in Eligible(Now) :
     s1 # s2 /\ s1 # s3 /\ s2 # s3 /\ Bonded(s1, s2, s3)

\* C6 as stated: with three free satellites with fuel >= T_LOW within the bond
\* radius of each other, one call of form_triplet yields exactly one new
\* builder and two new beacons at rest, one commander (the one with less fuel)
\* and one reserver, the builder's pair being those two, each of the three
\* paying T_LOW * 0.2, and nothing else changes.
C6_FormationAlwaysBonds ==
  [][(FormCall /\ ThreeInReach) => OneTripletFormed]_vars

\* C6: under the same condition one call of form_triplet either changes
\* nothing (the seed it drew has fewer than two neighbours within the bond
\* radius) or yields exactly that triplet.
C6_FormationBondsOrNothing ==
  [][(FormCall /\ ThreeInReach) => (sat' = sat \/ OneTripletFormed)]_vars

\* A builder formed by the call of the main loop: it holds no lock yet.
C6_Formed ==
  /\ pc = "aid" /\ frame % 240 = 0
  /\ \E i \in Builders :
        /\ \A j \in Targets : tgt[j].builder # i
        /\ Len(sat[i].beacon_pair) = 2
        /\ sat[sat[i].beacon_pair[1]].status = "beacon"
        /\ sat[sat[i].beacon_pair[2]].status = "beacon"

\* The allocator is at builder k, which finishes a target in this step, does
\* not park, is left with less than T_LOW fuel, and neither of its two beacons
\* has more fuel than the donor threshold: its refuel fails.
RefuelFails ==
  /\ pc = "build" /\ k \in Builders /\ Len(sat[k].beacon_pair) = 2
  /\ \E j \in Targets : ~tgt[j].built /\ tgt'[j].built
  /\ sat'[k].status # "stationed"
  /\ sat[k].fuel - BuildCost < T_LOW
  /\ \A b \in Range(sat[k].beacon_pair) :
        sat[b].status = "beacon" /\ sat[b].fuel <= DonorMin

\* C7: when the refuel of a builder below T_LOW fails because both beacons are
\* below the donor threshold, no fuel changes hands, both beacons become free
\* with their role cleared, the builder's pair is cleared and the builder
\* becomes returning.
C7_FailedRefuelReleases ==
  [][RefuelFails =>
       /\ sat'[k].status = "returning"
       /\ sat'[k].beacon_pair = NoPair
       /\ sat'[k].fuel = sat[k].fuel - BuildCost
       /\ \A o \in Sats \ {k} : sat'[o].fuel = sat[o].fuel
       /\ \A b \in Range(sat[k].beacon_pair) :
             sat'[b].status = "free" /\ sat'[b].role = "none"]_vars

\* The allocator has just passed a builder whose refuel failed at the target
\* it finished: it is returning, short of fuel, without pair, beside two free
\* satellites that cannot donate.
C7_Failed ==
  /\ pc = "build" /\ k > 1
  /\ sat[k - 1].status = "returning" /\ sat[k - 1].fuel < T_LOW
  /\ sat[k - 1].beacon_pair = NoPair /\ sat[k - 1].target = NoTarget
  /\ \E j \in Targets :
        /\ tgt[j].built /\ tgt[j].build_progress = ProgressDone
        /\ Mag(sat[k - 1].pos - TargetPos[j]) < ARRIVAL_RADIUS
  /\ \E a, b \in Sats \ {k - 1} :
        /\ a # b
        /\ sat[a].status = "free" /\ sat[a].role = "none" /\ sat[a].fuel <= DonorMin
        /\ sat[b].status = "free" /\ sat[b].role = "none" /\ sat[b].fuel <= DonorMin

\* Rescuer k reaches its dead victim in this step and hands fuel over.
RescueDelivers ==
  /\ pc = "step" /\ sat[k].status = "rescue" /\ sat[k].target.kind = "sat"
  /\ sat[sat[k].target.id].status = "dead"
  /\ sat'[sat[k].target.id].fuel > sat[sat[k].target.id].fuel

\* C8: a dead satellite to which its assigned rescuer hands fuel over is free
\* afterwards, with more fuel than before and at most F_TOTAL; the rescuer is
\* returning and its target is cleared.
C8_TransferRevives ==
  [][RescueDelivers =>
       /\ sat'[sat[k].target.id].status = "free"
       /\ sat'[sat[k].target.id].fuel <= F_TOTAL
       /\ sat'[k].status = "returning"
       /\ sat'[k].target = NoTarget]_vars

\* The fuel satellite k has after the drain of its step
Drained ==
  sat[k].fuel - (IF sat[k].status = "stationed" THEN StationedDrain
                 ELSE IF sat[k].status = "beacon" THEN BeaconDrain
                 ELSE ICE_CONSUMPTION)

\* What step() does with the status of satellite k, and that no other step of
\* the program makes a satellite weak or dead.
StepStatus ==
  /\ (pc = "step" /\ pc' # "crashed") =>
        /\ (sat[k].status = "free" /\ 0 < Drained /\ Drained < T_CRITICAL)
              => sat'[k].status = "weak"
        /\ (sat[k].status # "dead" /\ Drained <= 0)
              => sat'[k].status = "dead" /\ sat'[k].vel = 0
        /\ (sat[k].status = "free" /\ Drained >= T_CRITICAL)
              => sat'[k].status = "free"
        /\ (sat[k].status = "weak" /\ Drained > 0) => sat'[k].status = "weak"
  /\ \A i \in Sats :
        (sat'[i].status = "dead" /\ sat[i].status # "dead")
           => pc = "step" /\ i = k /\ Drained <= 0

\* C9 as stated: a free satellite becomes weak in the first step that leaves
\* it less than T_CRITICAL (and more than 0) fuel, a satellite that is not dead
\* becomes dead, at rest, in the first step that leaves it no fuel, so free,
\* weak, dead succeed each other in that order; and a satellite is weak after
\* a step only if it was free before that step.
C9_WeakOnlyAfterFree ==
  [][/\ StepStatus
     /\ pc = "step" => (sat'[k].status = "weak" => sat[k].status = "free")]_vars

\* C9: the same transitions; and a satellite becomes weak only from free.
C9_WeakOnlyFromFree ==
  [][/\ StepStatus
     /\ \A i \in Sats :
           (sat'[i].status = "weak" /\ sat[i].status # "weak")
              => pc = "step" /\ i = k /\ sat[k].status = "free"]_vars

\* One satellite has just become weak and one has just died.
C9_Turned ==
  /\ \E i \in Sats : /\ sat[i].status = "weak"
                     /\ T_CRITICAL - ICE_CONSUMPTION <= sat[i].fuel
                     /\ sat[i].fuel < T_CRITICAL
  /\ \E i \in Sats : /\ sat[i].status = "dead" /\ sat[i].vel = 0
                     /\ -ICE_CONSUMPTION < sat[i].fuel /\ sat[i].fuel <= 0

\* Builder i asks the allocator for a target; the targets it can be given; the
\* one it ranks highest; its distance to a target.
Candidates == {j \in Targets : ~tgt[j].built /\ ~tgt[j].locked}
Requests(i) ==
  /\ i \in Builders /\ sat[i].beacon_pair # NoPair /\ sat[i].target.kind # "sat"
  /\ ~KeepsTarget(Now, i, frame)
  /\ Candidates # {}
Top(i) == RankByScore(Now, i, Candidates)[1]
Dist(i, j) == Mag(sat[i].pos - TargetPos[j])

\* C10: when two builders ask for a target in the same pass and rank the same
\* free target highest, the nearer one gets its lock and the farther one does
\* not, whichever of the two the pass reaches first.
C10_NearerBuilderWins ==
  [][(pc = "build" /\ Requests(k)) =>
       \A o \in Sats :
          (o > k /\ Requests(o) /\ Top(o) = Top(k))
             => /\ Dist(k, Top(k)) < Dist(o, Top(k)) => tgt'[Top(k)].builder = k
                /\ Dist(o, Top(k)) < Dist(k, Top(k)) => tgt'[Top(k)].builder # k]_vars

\* C11: a returning satellite that is within reach of the base after the move
\* of its step, and has fuel left after the drain, ends the step free, with
\* full fuel, no role and no pair.
C11_ArrivalResets ==
  [][(/\ pc = "step" /\ sat[k].status = "returning"
      /\ Mag(sat'[k].pos - BASE_POS) < BaseRadius
      /\ Drained > 0)
       => /\ sat'[k].fuel = F_TOTAL
          /\ sat'[k].status = "free"
          /\ sat'[k].role = "none"
          /\ sat'[k].beacon_pair = NoPair]_vars

\* The satellite whose step has just ended is at the base, free, full, without
\* role or pair: it has been reset on arrival.
C11_Arrived ==
  /\ pc = "step" /\ k > 1
  /\ sat[k - 1].status = "free" /\ sat[k - 1].fuel = F_TOTAL
  /\ sat[k - 1].role = "none" /\ sat[k - 1].beacon_pair = NoPair
  /\ Mag(sat[k - 1].pos - BASE_POS) < BaseRadius

\* The priority p of target j is the one the strategy gives it.
PriorityFits(strategy, j, p) ==
  CASE strategy = "bottom_up" -> p = -TargetPos[j]
    [] strategy = "center_out" -> p = -Mag(TargetPos[j])
    [] OTHER -> p \in RandomPriority
StrategyDue == pc = "regulate" /\ frame + 1 - alpha.last_strategy_change > STRATEGY_CHANGE_INTERVAL

\* C12: the regulate call that finds the strategy older than
\* STRATEGY_CHANGE_INTERVAL selects the strategy by the completion fraction and
\* gives every target the priority of that strategy; nothing else changes a
\* priority or the strategy; and a builder that asks for a target is given one
\* that no candidate outranks under the priorities then in force, unless a
\* nearer builder is heading for that candidate.
C12_StrategyTurn ==
  [][/\ StrategyDue =>
           /\ alpha'.build_strategy = SelectStrategy(telemetry(Now))
           /\ alpha'.last_strategy_change = frame + 1
           /\ \A j \in Targets :
                 PriorityFits(alpha'.build_strategy, j, tgt'[j].priority)
     /\ ~StrategyDue =>
           /\ alpha'.build_strategy = alpha.build_strategy
           /\ \A j \in Targets : tgt'[j].priority = tgt[j].priority
     /\ (pc = "build" /\ Requests(k)) =>
           \A j \in Targets :
              sat'[k].target = TgtRef(j) =>
                 \A c \in Candidates :
                    Score(Now, k, c) > Score(Now, k, j) => check_collision_path(Now, k, c)
    ]_vars

\* The strategy has turned to center_out in this frame, and a builder that
\* asked for a target in this frame holds the target at the base although the
\* lower target, which bottom_up ranks first, is free.
C12_Turned ==
  /\ alpha.build_strategy = "center_out" /\ alpha.last_strategy_change = frame
  /\ \E i \in Builders :
        /\ sat[i].last_goal_revision = frame /\ sat[i].target = TgtRef(1)
        /\ ~tgt[2].built /\ ~tgt[2].locked

\* C13: over every step, a built target stays built; the progress of a target
\* does not decrease and, once within [0, 1], stays within [0, 1]; a target is
\* built exactly when its progress has reached 1.0; and a built target is not
\* locked.
C13_TargetsOnlyAdvance ==
  [][\A j \in Targets :
        /\ tgt[j].built => tgt'[j].built
        /\ tgt'[j].build_progress >= tgt[j].build_progress
        /\ ProgressWithinUnit(tgt[j].build_progress)
              => ProgressWithinUnit(tgt'[j].build_progress)
        /\ tgt'[j].built <=> ProgressReached(tgt'[j].build_progress)
        /\ tgt'[j].built => ~tgt'[j].locked]_vars

\* C14: in every state, sweeping the stale locks twice leaves the targets
\* (their locks and owners) as sweeping once leaves them.
C14_SweepIdempotent ==
  SweepLocks(SweepLocks(Now)).tgt = SweepLocks(Now).tgt

\* The sweep is about to run on a state with a stale lock and a lock that is
\* in order.
C14_StaleAndSound ==
  /\ pc = "sweep"
  /\ \E j \in Targets : StaleLock(Now, j)
  /\ \E j \in Targets : tgt[j].locked /\ ~StaleLock(Now, j)

\* C15: the program never ends in a runtime error: when the allocator comes to
\* a builder, the builder's target is empty or a target point, and when step()
\* comes to a rescuer, the rescuer's target is a satellite.
C15_NoFatalError ==
  /\ pc # "crashed"
  /\ (pc = "build" /\ sat[k].status = "builder") => sat[k].target.kind # "sat"
  /\ (pc = "step" /\ sat[k].status = "rescue") => sat[k].target.kind = "sat"

\* No satellite is a builder after the step that was none before: a call of
\* form_triplet in the step has formed nothing.
NothingFormed == \A i \in Sats : sat'[i].status = "builder" => sat[i].status = "builder"
FormationDue == pc = "regulate" /\ frame + 1 - alpha.last_triplet_frame > TripletInterval

\* C16: a call of form_triplet that fails (fewer than three free satellites
\* with fuel >= T_LOW, or a seed with fewer than two neighbours in reach)
\* changes no satellite; in regulate it changes no fuel, makes no beacon and
\* leaves the frame of the last formation as it was, so that the formation is
\* due again in the next frame; that frame advances only with a triplet formed.
C16_FailedFormationChangesNothing ==
  [][/\ (FormCall /\ (NothingFormed \/ Cardinality(Eligible(Now)) < 3)) => sat' = sat
     /\ (FormationDue /\ NothingFormed) =>
           /\ alpha'.last_triplet_frame = alpha.last_triplet_frame
           /\ frame' + 1 - alpha'.last_triplet_frame > TripletInterval
           /\ \A i \in Sats :
                 /\ sat'[i].fuel = sat[i].fuel
                 /\ sat'[i].status = "beacon" => sat[i].status = "beacon"
     /\ alpha'.last_triplet_frame # alpha.last_triplet_frame =>
           /\ FormationDue /\ alpha'.last_triplet_frame = frame + 1
           /\ \E i \in Sats :
                 /\ sat'[i].status = "builder" /\ sat[i].status # "builder"
                 /\ sat'[i].fuel = sat[i].fuel - FormationCost]_vars

\* regulate has just returned from a formation that was due and failed
\* although three satellites were eligible: the formation is still due.
C16_FailedAttempt ==
  /\ pc = "step" /\ k = 1
  /\ frame - alpha.last_triplet_frame > TripletInterval
  /\ Cardinality(Eligible(Now)) >= 3

\* C17: a dead satellite changes its status in one way only: a rescuer whose
\* target it is transfers fuel to it in its step, and the satellite is free.
C17_DeadUntilRevived ==
  [][\A i \in Sats :
       (sat[i].status = "dead" /\ sat'[i].status # "dead") =>
         /\ pc = "step" /\ sat[k].status = "rescue" /\ sat[k].target = SatRef(i)
         /\ sat'[i].status = "free" /\ sat'[i].fuel > sat[i].fuel]_vars

\* C18: when building_step comes to a builder whose fuel is below T_LOW, it
\* either refuels it from its pair (a member of the pair gives fuel) or the
\* builder is returning afterwards: it does not remain a builder unserved.
C18_LowBuilderServed ==
  [][(/\ pc = "build" /\ sat[k].status = "builder"
      /\ sat[k].fuel < T_LOW /\ sat'[k].status = "builder")
       => \E m \in Sats : /\ sat[k].beacon_pair # NoPair
                           /\ m \in {sat[k].beacon_pair[1], sat[k].beacon_pair[2]}
                           /\ sat'[m].fuel < sat[m].fuel]_vars

\* building_step completes a target with builder k, which is then below T_LOW
\* and still bonded: refuel_builder is called on it in this step.
RefuelCalled ==
  /\ pc = "build" /\ sat[k].status = "builder" /\ sat[k].beacon_pair # NoPair
  /\ sat[k].target.kind = "tp"
  /\ ~tgt[sat[k].target.id].built /\ tgt'[sat[k].target.id].built
  /\ sat[k].fuel - BuildCost < T_LOW
  /\ sat'[k].status # "stationed"

\* C19: a refuel that succeeds takes min(F_MAX_SHARE, half the donor's fuel,
\* the donor's fuel above T_CRITICAL) > 0 from the beacon of the pair that has
\* no less fuel than the other, leaves the donor at T_CRITICAL or above, adds
\* the amount to the builder up to F_TOTAL and changes no other fuel; a refuel
\* that fails changes no fuel; and no beacon gives fuel outside such a call.
C19_RefuelTransfer ==
  [][/\ RefuelCalled =>
          LET first == sat[k].beacon_pair[1]
              second == sat[k].beacon_pair[2]
              donor == IF sat[first].fuel > sat[second].fuel THEN first ELSE second
              amount == Min2(Min2(F_MAX_SHARE, sat[donor].fuel \div 2),
                             sat[donor].fuel - T_CRITICAL)
              paid == sat[k].fuel - BuildCost
          IN IF sat'[k].status = "builder"
             THEN /\ sat[donor].fuel >= sat[first].fuel
                  /\ sat[donor].fuel >= sat[second].fuel
                  /\ amount > 0
                  /\ sat'[donor].fuel = sat[donor].fuel - amount
                  /\ sat'[donor].fuel >= T_CRITICAL
                  /\ sat'[k].fuel = Min2(paid + amount, F_TOTAL)
                  /\ \A i \in Sats \ {k, donor} : sat'[i].fuel = sat[i].fuel
             ELSE /\ sat'[k].status = "returning" /\ sat'[k].fuel = paid
                  /\ \A i \in Sats \ {k} : sat'[i].fuel = sat[i].fuel
     /\ (pc = "build" /\ \E i \in Sats \ {k} : sat'[i].fuel # sat[i].fuel)
          => RefuelCalled]_vars

\* a builder that has just been refuelled by the first beacon of its pair, the
\* richer one, which gave half of its fuel and less than the full share
C19_Refuelled ==
  /\ pc = "build" /\ k = 2 /\ frame = 601
  /\ sat[1].status = "builder" /\ sat[1].beacon_pair = <<2, 3>>
  /\ sat[1].target = NoTarget /\ tgt[1].built
  /\ sat[2].fuel < F_MAX_SHARE /\ sat[2].fuel > sat[3].fuel
  /\ sat[1].fuel > T_LOW

\* C20: after a refuel that succeeded, the two beacons of the builder's pair
\* carry one role commander and one role reserver, and the commander has at
\* least as much fuel as the reserver.
C20_CommanderRicher ==
  [][(RefuelCalled /\ sat'[k].status = "builder") =>
       \E c, r \in {sat[k].beacon_pair[1], sat[k].beacon_pair[2]} :
         /\ c # r
         /\ sat'[c].role = "commander" /\ sat'[r].role = "reserver"
         /\ sat'[c].fuel >= sat'[r].fuel]_vars

\* The tick has ended and the lock of target j is held by a satellite that is
\* dead, returning or stationed.
LockOrphaned(j) ==
  /\ pc = "regulate"
  /\ tgt[j].locked /\ tgt[j].builder # 0
  /\ sat[tgt[j].builder].status \in {"dead", "returning", "stationed"}

\* C21 (the sweep): the sweep unlocks every locked target whose owner is
\* missing or not a builder, clears its owner, and changes nothing else.
C21_SweepReleasesStale ==
  [][pc = "sweep" =>
       \A j \in Targets :
         tgt'[j] = IF tgt[j].locked /\ (tgt[j].builder = 0
                                        \/ sat[tgt[j].builder].status # "builder")
                   THEN [tgt[j] EXCEPT !.locked = FALSE, !.builder = 0]
                   ELSE tgt[j]]_vars

\* C21 (the consequence): a lock whose owner is dead, returning or stationed at
\* the end of a tick is released by the sweep of the next tick.  The sweep
\* keeps a lock exactly when its owner is a builder, and a builder that has
\* fuel for its step and is no rescuer's goal is a builder still when the sweep
\* runs; so regulate, which runs before the sweep, does not leave the owner of
\* such a lock as such a builder.
C21_OrphanedLockReleased ==
  [][\A j \in Targets :
       LockOrphaned(j) =>
         ~(/\ tgt'[j].locked /\ tgt'[j].builder = tgt[j].builder
           /\ sat'[tgt[j].builder].status = "builder"
           /\ sat'[tgt[j].builder].fuel > ICE_CONSUMPTION
           /\ \A r \in Sats : sat'[r].status = "rescue"
                                => sat'[r].target # SatRef(tgt[j].builder))]_vars

\* Another builder holds a reference to target j and is strictly nearer to it
\* than satellite i.
Contested(i, j) ==
  \E o \in Builders \ {i} : sat[o].target = TgtRef(j) /\ Dist(o, j) < Dist(i, j)
\* priority * PRIORITY_WEIGHT - distance * DISTANCE_WEIGHT
ScoreOf(i, j) == tgt[j].priority * PRIORITY_WEIGHT - Dist(i, j) * DISTANCE_WEIGHT
\* Satellite i holds target j after the step, or has completed it in the step.
Acquired(i, j) ==
  \/ /\ tgt'[j].locked /\ tgt'[j].builder = i /\ ~tgt'[j].built
     /\ sat'[i].target = TgtRef(j)
  \/ /\ tgt'[j].built /\ ~tgt'[j].locked /\ sat'[i].target = NoTarget

\* C22: a builder that requests a target locks a candidate (unbuilt, unlocked
\* before the request) whose score is the highest among the candidates not
\* contested by a nearer builder, or among all candidates when all are
\* contested; the target names the builder, the builder's target is that target
\* and its goal revision is the current frame; no other target changes.  A
\* builder whose target is unbuilt, locked, its own and younger than
\* GOAL_REVISION_INTERVAL keeps it.
C22_RequestLocksBest ==
  [][/\ (pc = "build" /\ Requests(k)) =>
          LET open == {j \in Candidates : ~Contested(k, j)}
              pool == IF open = {} THEN Candidates ELSE open
          IN \E j \in pool :
               /\ \A j2 \in pool : ScoreOf(k, j) >= ScoreOf(k, j2)
               /\ Acquired(k, j)
               /\ sat'[k].last_goal_revision = frame
               /\ \A j2 \in Targets \ {j} : tgt'[j2] = tgt[j2]
     /\ (/\ pc = "build" /\ k \in Builders /\ sat[k].beacon_pair # NoPair
         /\ sat[k].target.kind = "tp"
         /\ ~tgt[sat[k].target.id].built /\ tgt[sat[k].target.id].locked
         /\ tgt[sat[k].target.id].builder = k
         /\ frame - sat[k].last_goal_revision < GOAL_REVISION_INTERVAL)
          => /\ Acquired(k, sat[k].target.id)
             /\ sat'[k].last_goal_revision = sat[k].last_goal_revision
             /\ \A j2 \in Targets \ {sat[k].target.id} : tgt'[j2] = tgt[j2]]_vars

\* Builder 1 has just passed over the candidate it ranks highest, the target
\* at the base, to which another builder is nearer, and locked the upper one.
C22_PassedOver ==
  /\ pc = "build" /\ k = 2
  /\ 1 \in Builders /\ sat[1].target = TgtRef(3) /\ sat[1].last_goal_revision = frame
  /\ tgt[3].locked /\ tgt[3].builder = 1
  /\ ~tgt[1].locked /\ ~tgt[1].built /\ Contested(1, 1)
  /\ ScoreOf(1, 1) > ScoreOf(1, 3)

\* The builder k completes target j in this step of the allocator.
Completes(j) == pc = "build" /\ ~tgt[j].built /\ tgt'[j].built
\* the target and the builder's reference after a completion
Closed(j) ==
  /\ ~tgt'[j].locked /\ tgt'[j].builder = 0
  /\ sat'[k].target = NoTarget
\* the builder parks at target j and its pair is released
Parks(j) ==
  /\ sat'[k].status = "stationed" /\ sat'[k].pos = TargetPos[j] /\ sat'[k].vel = 0
  /\ sat'[k].fuel = sat[k].fuel - BuildCost
  /\ sat'[k].beacon_pair = NoPair
  /\ \A b \in Range(sat[k].beacon_pair) : sat'[b].status = "free" /\ sat'[b].role = "none"
\* the builder goes on as a builder with its pair as it was
Continues ==
  /\ sat'[k].status = "builder" /\ sat'[k].beacon_pair = sat[k].beacon_pair
  /\ sat'[k].fuel = sat[k].fuel - BuildCost
  /\ \A b \in Range(sat[k].beacon_pair) : sat'[b] = sat[b]

\* C23 as stated: a completion closes the target, takes the construction cost
\* from the builder and clears its target; the builder then parks at the
\* target, its beacons freed and its pair cleared, or goes on as a builder
\* with its bond intact.
C23_CompletionParksOrContinues ==
  [][\A j \in Targets : Completes(j) => (Closed(j) /\ (Parks(j) \/ Continues))]_vars

\* C23 with the refuel check: a builder that does not park and is below T_LOW
\* after the construction cost is refuelled from its pair and goes on, or is
\* sent back to the base, its beacons freed and its pair cleared.
C23_CompletionOutcomes ==
  [][\A j \in Targets : Completes(j) =>
       /\ Closed(j)
       /\ \/ Parks(j)
          \/ Continues /\ sat[k].fuel - BuildCost >= T_LOW
          \/ /\ sat[k].fuel - BuildCost < T_LOW
             /\ sat'[k].status = "builder" /\ sat'[k].beacon_pair = sat[k].beacon_pair
             /\ sat'[k].fuel > sat[k].fuel - BuildCost
             /\ \A b \in Range(sat[k].beacon_pair) : sat'[b].status = sat[b].status
          \/ /\ sat[k].fuel - BuildCost < T_LOW
             /\ sat'[k].status = "returning" /\ sat'[k].beacon_pair = NoPair
             /\ sat'[k].fuel = sat[k].fuel - BuildCost
             /\ \A b \in Range(sat[k].beacon_pair) :
                   sat'[b].status = "free" /\ sat'[b].role = "none"]_vars

\* The allocator has just passed builder 1, which completed the lower target
\* and parked on it; its beacons are free.
C23_Parked ==
  /\ pc = "build" /\ k = 2 /\ frame = 701
  /\ tgt[2].built /\ ~tgt[2].locked /\ tgt[2].builder = 0
  /\ sat[1].status = "stationed" /\ sat[1].pos = TargetPos[2] /\ sat[1].vel = 0
  /\ sat[1].target = NoTarget /\ sat[1].beacon_pair = NoPair
  /\ sat[2].status = "free" /\ sat[3].status = "free"

\* One pass of prioritize_rescue over the present swarm.
Dead == {i \in Sats : sat[i].status = "dead"}
RescuePool == {i \in Sats : sat[i].status = "free" /\ sat[i].fuel > T_LOW}
AfterRescuePass == prioritize_rescue(Now)
Assigned == {i \in Sats : AfterRescuePass.sat[i] # sat[i]}
VictimOf(i) == AfterRescuePass.sat[i].target.id

\* C24: whenever regulate is about to run, a rescue pass over the swarm would
\* change only satellites that are free with fuel > T_LOW, each to status
\* rescue with a dead satellite as its target and nothing else changed; it
\* serves the first dead satellites, as many as the smaller of three and the
\* size of the pool, no two rescuers the same one; and each rescuer is the
\* nearest to its victim of the pool less the rescuers of earlier victims.
\* In the regulate step itself at most three satellites become rescuers, each
\* with a satellite dead before the step as its target.
C24_RescuePass ==
  [][pc = "regulate" =>
       /\ AfterRescuePass.tgt = tgt /\ ~AfterRescuePass.err
       /\ Cardinality(Assigned) = Min2(Min2(3, Cardinality(Dead)), Cardinality(RescuePool))
       /\ \A i \in Assigned :
             /\ i \in RescuePool
             /\ VictimOf(i) \in Dead
             /\ AfterRescuePass.sat[i] =
                  [sat[i] EXCEPT !.status = "rescue", !.target = SatRef(VictimOf(i))]
             /\ Cardinality({d \in Dead : d < VictimOf(i)}) < 3
             /\ \A o \in Assigned \ {i} : VictimOf(o) # VictimOf(i)
             /\ \A o \in RescuePool :
                   \/ o \in Assigned /\ VictimOf(o) < VictimOf(i)
                   \/ Mag(sat[i].pos - sat[VictimOf(i)].pos)
                        <= Mag(sat[o].pos - sat[VictimOf(i)].pos)
       /\ LET turned == {i \in Sats : sat'[i].status = "rescue" /\ sat[i].status # "rescue"}
          IN /\ Cardinality(turned) <= 3
             /\ \A i \in turned : /\ sat'[i].target.kind = "sat"
                                   /\ sat'[i].target.id \in Dead
                                   /\ sat'[i].fuel = sat[i].fuel]_vars

\* regulate has just sent three rescuers to three dead satellites; a fourth
\* dead satellite has none, although a free satellite with fuel is left.
C24_ThreeSent ==
  /\ pc = "step" /\ k = 1
  /\ LET rescuers == {i \in Sats : /\ sat[i].status = "rescue" /\ sat[i].target.kind = "sat"
                                    /\ sat[i].target.id \in Dead}
     IN /\ Cardinality({sat[i].target.id : i \in rescuers}) = 3
        /\ Cardinality(rescuers) = 3
        /\ \E d \in Dead : \A i \in rescuers : sat[i].target.id # d
  /\ RescuePool # {}

\* The reserver beacons with fuel above th, and the aid step of the main loop
\* read with that threshold: only weak satellites and beacons change, a beacon
\* only by giving fuel, which only a reserver above th does, keeping T_CRITICAL
\* or more; a weak satellite that changes has drawn from the nearest of those
\* reservers, within the proximity radius, and is free with T_CRITICAL < fuel
\* <= F_TOTAL; when it is the only one to draw, the amount is min(F_MAX_SHARE,
\* beacon fuel - T_CRITICAL); a weak satellite with no such reserver in range
\* is left as it was.
AidReservers(th) ==
  {r \in Sats : sat[r].status = "beacon" /\ sat[r].role = "reserver" /\ sat[r].fuel > th}
AidStep(th) ==
  pc = "aid" =>
    /\ \A i \in Sats : sat[i].status \notin {"weak", "beacon"} => sat'[i] = sat[i]
    /\ \A r \in Sats : sat[r].status = "beacon" =>
          /\ sat'[r] = [sat[r] EXCEPT !.fuel = sat'[r].fuel]
          /\ sat'[r].fuel <= sat[r].fuel
          /\ sat'[r].fuel < sat[r].fuel =>
                r \in AidReservers(th) /\ sat'[r].fuel >= T_CRITICAL
    /\ \A i \in Sats : sat[i].status = "weak" =>
          /\ \/ sat'[i] = sat[i]
             \/ \E r \in AidReservers(th) :
                  /\ Mag(sat[i].pos - sat[r].pos) < AidRadius
                  /\ \A o \in AidReservers(th) :
                        Mag(sat[i].pos - sat[r].pos) <= Mag(sat[i].pos - sat[o].pos)
                  /\ sat'[i] = [sat[i] EXCEPT !.status = "free", !.fuel = sat'[i].fuel]
                  /\ sat'[i].fuel > T_CRITICAL /\ sat'[i].fuel <= F_TOTAL
                  /\ sat'[r].fuel < sat[r].fuel
                  /\ Cardinality({x \in Sats : sat[x].status = "weak" /\ sat'[x] # sat[x]}) = 1
                       => LET amount == Min2(F_MAX_SHARE, sat[r].fuel - T_CRITICAL)
                          IN /\ sat'[i].fuel = Min2(sat[i].fuel + amount, F_TOTAL)
                             /\ sat'[r].fuel = sat[r].fuel - amount
          /\ (\A r \in AidReservers(th) : Mag(sat[i].pos - sat[r].pos) >= AidRadius)
                => sat'[i] = sat[i]

\* C25 as stated: the aid step with the threshold one third of F_TOTAL.
C25_AidAboveThird == [][AidStep(F_TOTAL \div 3)]_vars

\* C25 with the threshold of the code, 0.33 * F_TOTAL.
C25_AidAboveDonorMin == [][AidStep((33 * F_TOTAL) \div 100)]_vars

\* The aid has just served one weak satellite from beacon 3 and left another
\* weak one beside it unserved, the beacon being at T_CRITICAL or little above.
C25_Aided ==
  /\ pc = "regulate" /\ frame = 701
  /\ sat[3].status = "beacon" /\ sat[3].role = "reserver"
  /\ sat[3].fuel >= T_CRITICAL /\ sat[3].fuel < T_LOW
  /\ sat[7].status = "free" /\ sat[7].fuel > T_CRITICAL
  /\ sat[8].status = "weak" /\ Mag(sat[8].pos - sat[3].pos) < AidRadius

\* instability above 0.25: (weak + dead) / number of satellites
Instable ==
  4 * Cardinality({i \in Sats : sat[i].status \in {"weak", "dead"}}) > NUM_SATELLITES
PairOf(b) == Range(sat[b].beacon_pair)

C27_BondRadiusBounded ==
  /\ [](6 * POS_SCALE <= alpha.bond_radius /\ alpha.bond_radius <= 80 * POS_SCALE)
  /\ [][alpha'.bond_radius =
          IF pc # "regulate" THEN alpha.bond_radius
          ELSE IF Instable THEN Min2(80 * POS_SCALE, alpha.bond_radius + 2 * POS_SCALE)
          ELSE Max2(6 * POS_SCALE, alpha.bond_radius - POS_SCALE \div 2)]_vars

\* regulate has just raised the bond radius to its upper bound, by less than
\* its usual step.
C27_AtUpperBound ==
  /\ pc = "step" /\ k = 1 /\ frame = 1001
  /\ Instable /\ alpha.bond_radius = BondRadiusMax

\* C28: two successful formations are more than 120 frames apart: a step
\* that forms a triplet forms one only, in a frame more than 120 after the frame
\* of the last successful formation the controller has recorded.
C28_FormationsApart ==
  [][~NothingFormed =>
       /\ frame' - alpha.last_triplet_frame > 120
       /\ Cardinality({i \in Sats : sat'[i].status = "builder"
                                     /\ sat[i].status # "builder"}) = 1]_vars

\* C29: a satellite stops being stationed (other than by running out of fuel)
\* only in a regulate call that starts with fewer than 5 free satellites, a
\* stationed one and an unbuilt target; at most three do so in one call, each
\* keeps its position, and its fuel unless the same call bonds it at once; so
\* with all targets built none is reactivated.
Reactivated ==
  {i \in Sats : sat[i].status = "stationed" /\ sat'[i].status \notin {"stationed", "dead"}}
C30_HeldPositions ==
  /\ [](\A i \in Sats : sat[i].status = "stationed"
                           => \E j \in Targets : tgt[j].built /\ sat[i].pos = TargetPos[j])
  /\ [][\A i \in Sats : sat[i].status \in {"beacon", "stationed", "dead"}
                           => sat'[i].pos = sat[i].pos]_vars

\* All satellites have taken their step of frame 601: the stationed one and a
\* beacon have paid their drain where they stood, and a dead one lies where it
\* died.
C30_HeldThroughStep ==
  /\ pc = "sweep" /\ frame = 601
  /\ sat[9].status = "stationed" /\ sat[9].pos = TargetPos[3]
  /\ sat[9].fuel = 30 * FUEL_SCALE - StationedDrain
  /\ sat[2].status = "beacon" /\ sat[2].pos = -10
  /\ sat[6].status = "dead" /\ sat[6].pos = 55 * POS_SCALE

\* C31: in every state each beacon is a member of the beacon pair of exactly
\* one builder.
PairHolders(b) ==
  {i \in Sats : sat[i].status = "builder" /\ sat[i].beacon_pair # NoPair
                 /\ b \in {sat[i].beacon_pair[1], sat[i].beacon_pair[2]}}
C31_BeaconHasOneBuilder ==
  \A b \in Sats : sat[b].status = "beacon" => Cardinality(PairHolders(b)) = 1

\* C32: releasing a pair changes only members that are beacons at that moment.
\* The controller and the allocator write the status, role and velocity of a
\* dead satellite nowhere else, so no regulate call and no allocator step
\* changes the status, role or velocity of a satellite that is dead.
C32_ReleaseSparesTheDead ==
  [][(pc = "regulate" \/ pc = "build") =>
       \A i \in Sats :
         sat[i].status = "dead" =>
           (sat'[i].status = "dead" /\ sat'[i].role = sat[i].role
              /\ sat'[i].vel = sat[i].vel)]_vars

\* C33: no allocator step sets a builder to returning that owns the lock of
\* its target while that target stays unbuilt.
C33_OwnerNotSentBack ==
  [][pc = "build" =>
       \A i \in Sats : \A j \in Targets :
         (/\ sat[i].status = "builder" /\ sat[i].target = TgtRef(j)
          /\ tgt[j].locked /\ tgt[j].builder = i /\ ~tgt[j].built
          /\ ~tgt'[j].built)
           => sat'[i].status # "returning"]_vars

\* C34: in every state at most one rescuer is on the way to any one satellite.
RescuersOf(v) == {r \in Sats : sat[r].status = "rescue" /\ sat[r].target = SatRef(v)}
C34_OneRescuerPerVictim ==
  \A v \in Sats : Cardinality(RescuersOf(v)) <= 1

\* C35: the fuel of a dead satellite changes only by a rescue transfer into
\* it, so no step of the program lowers it.
C35_DeadKeepsFuel ==
  [][\A i \in Sats : sat[i].status = "dead" => sat'[i].fuel >= sat[i].fuel]_vars

\* The fuel of the whole swarm.
RECURSIVE FuelUpTo(_, _)
FuelUpTo(s, n) == IF n = 0 THEN 0 ELSE s[n].fuel + FuelUpTo(s, n - 1)
SwarmFuel == FuelUpTo(sat, NUM_SATELLITES)

\* C36: the transfers conserve fuel, so the fuel of the swarm changes in a step
\* by exactly what that step drains or spends: nothing in the weak aid and the
\* sweep; the construction cost of 5, or nothing, in an allocator step (its
\* refuel moves fuel only); 6 for each member of each new triplet in regulate
\* and in the main loop's formation; and in step() of a satellite its drain
\* (0.0003 stationed, 0.0006 beacon, 0.03 otherwise, a rescue transfer moving
\* fuel only), unless it is reset to F_TOTAL at the base.
C36_TransfersConserveFuel ==
  [][LET formed == Cardinality({i \in Sats : sat'[i].status = "builder"
                                               /\ sat[i].status # "builder"})
         drain == IF sat[k].status = "stationed" THEN (3 * FUEL_SCALE) \div 10000
                  ELSE IF sat[k].status = "beacon" THEN (6 * FUEL_SCALE) \div 10000
                  ELSE (3 * FUEL_SCALE) \div 100
     IN CASE pc = "aid" \/ pc = "sweep" -> SwarmFuel' = SwarmFuel
          [] pc = "build" -> SwarmFuel' = SwarmFuel \/ SwarmFuel' = SwarmFuel - 5 * FUEL_SCALE
          [] pc = "regulate" \/ pc = "form" ->
               SwarmFuel' = SwarmFuel - formed * 3 * 6 * FUEL_SCALE
          [] pc = "step" /\ pc' # "crashed" ->
               IF sat[k].status = "returning" /\ sat'[k].status = "free"
               THEN SwarmFuel' - F_TOTAL = SwarmFuel - sat[k].fuel
               ELSE SwarmFuel' = SwarmFuel - drain
          [] OTHER -> SwarmFuel' = SwarmFuel]_vars

\* A rescuer with fuel 50 has reached a satellite with fuel 95 and given it the
\* 5 it had room for.
C36_CappedTransfer ==
  /\ pc = "step" /\ k = 9 /\ frame = 240
  /\ sat[9].fuel = F_TOTAL
  /\ sat[8].status = "returning" /\ sat[8].fuel = 45 * FUEL_SCALE - ICE_CONSUMPTION

\* C37: the strategy only moves forward in the order bottom_up, center_out,
\* random, and no built target becomes unbuilt.
StrategyRank(st) == IF st = "bottom_up" THEN 1 ELSE IF st = "center_out" THEN 2 ELSE 3
C37_StrategyMovesForward ==
  [][/\ StrategyRank(alpha'.build_strategy) >= StrategyRank(alpha.build_strategy)
     /\ \A j \in Targets : tgt[j].built => tgt'[j].built]_vars

\* The second selection has just confirmed center_out, selected at frame 601.
C37_SecondSelection ==
  /\ pc = "step" /\ k = 1 /\ frame = 1202
  /\ alpha.last_strategy_change = 1202 /\ alpha.build_strategy = "center_out"
  /\ Cardinality({j \in Targets : tgt[j].built}) = 1

\* C38: a free satellite that is beyond the simulation bound and heading
\* inward when its step begins is, after the step, inside the bound or still
\* heading inward.
C38_OutsideKeepsInward ==
  [][(/\ pc = "step" /\ sat[k].status = "free" /\ sat'[k].status = "free"
      /\ Mag(sat[k].pos) > 60 * POS_SCALE
      /\ Norm(sat[k].vel) = -Norm(sat[k].pos))
       => \/ Mag(sat'[k].pos) <= 60 * POS_SCALE
          \/ Norm(sat'[k].vel) = -Norm(sat'[k].pos)]_vars

====
